---- MODULE Spec2Model ----
(***************************************************************************)
(* A model of the GPU bounding volume hierarchy of src/block/bvh: the      *)
(* orchestrator Bvh (bvh.py) and its kernels (kernels.py).  A kernel whose *)
(* threads communicate or may write the same cell is stepped thread by     *)
(* thread, in any order; the host launches the kernels one after another   *)
(* on one stream.  Floats are modelled by integers: the inputs are small   *)
(* integer coordinates, for which the float32 arithmetic of the kernels is *)
(* exact, and +inf / -inf are the sentinels PosInf / NegInf.               *)
(***************************************************************************)
EXTENDS Integers, Sequences, FiniteSets, TLC

\* ------------------------------------------------------------------ bounds
\* Largest number of leaves a hierarchy is constructed with.
MaxLeaves == 3
\* Largest number of input mutations the caller makes after construction.
MaxMutations == 1
\* Streaming multiprocessors of the device (device.sm_count).
SmCount == 1
\* Largest number of leaves of the tree kernels run on chosen sorted keys.
MaxTreeLeaves == 4

\* --------------------------------------------------------------- constants
WarpSize == 32
BlockDim == 64
PosInf == 1000
NegInf == -1000

\* ------------------------------------------------------------- input boxes
\* The AABBs the caller constructs a hierarchy with, as <<lower, upper>>.
InitBoxes ==
    { << <<0, 0, 0>>, <<1, 1, 1>> >>,
      << <<2, 2, 2>>, <<3, 3, 3>> >> }
\* The AABBs the caller may overwrite a leaf with: the above, and one that is
\* flat in z and lies outside the others.
Boxes ==
    InitBoxes \cup { << <<10, 0, 5>>, <<11, 3, 5>> >> }

\* The 30-bit Morton codes the sorted key sequences of SpecTree are drawn
\* from: neighbours that differ in a low bit, and the largest code.
TreeKeys == {0, 1, 4, 5, 6, 1073741823}

VARIABLES
    num_leaves,         \* self.num_leaves
    lower_bounds,       \* self.lower_bounds (the caller's array)
    upper_bounds,       \* self.upper_bounds (the caller's array)
    device,             \* <<lower_bounds.device, upper_bounds.device>>
    flags,              \* self._flags
    scene_lower_upper,  \* self._scene_lower_upper
    leaf_indices,       \* self._leaf_indices[0 .. N)
    morton_codes,       \* self._morton_codes[0 .. N)
    bound_boxes,        \* self.bound_boxes
    parent_nodes,       \* self.parent_nodes
    left_nodes,         \* self.left_nodes
    right_nodes,        \* self.right_nodes
    escape_indices,     \* self.escape_indices
    bvh_nodes,          \* self.bvh_nodes
    pc,                 \* the host's position in rebuild() / refit()
    pending,            \* threads (or warps) of the running kernel still to run
    t_pc,               \* refit kernel: each thread's position
    t_current,          \* refit kernel: each thread's current_index
    t_parent,           \* refit kernel: each thread's parent_index
    t_aabb,             \* refit kernel: each thread's local aabb
    box_writes,         \* refit kernel: stores made to each box by this launch
    escape_writes,      \* escape kernel: stores made to each entry by the last launch
    verify_errors,      \* lines printed by the last verification kernel
    nan_quant,          \* int(clamp(NaN * 1024, 0, 1023)) on this build; -1: not yet computed
    call,               \* the API call in progress: "rebuild" or "refit"
    last_step,          \* the caller's last completed step
    mutations,          \* input mutations made so far
    var_int,            \* reduce test: each lane's input value
    ret_min_int,        \* reduce test: each lane's warp_reduce_min result
    ret_max_int,        \* reduce test: each lane's warp_reduce_max result
    ret_sum_int         \* reduce test: each lane's warp_reduce_sum result

arrays == <<flags, scene_lower_upper, leaf_indices, morton_codes, bound_boxes,
            parent_nodes, left_nodes, right_nodes, escape_indices, bvh_nodes>>
inputs == <<num_leaves, lower_bounds, upper_bounds, device, nan_quant>>
threads == <<t_pc, t_current, t_parent, t_aabb, box_writes, escape_writes>>
reduce_test == <<var_int, ret_min_int, ret_max_int, ret_sum_int>>
vars == <<inputs, arrays, pc, pending, threads, verify_errors, call, last_step,
          mutations, reduce_test>>

\* --------------------------------------------------------------- integers
Min(a, b) == IF a < b THEN a ELSE b
Max(a, b) == IF a > b THEN a ELSE b

RECURSIVE BitXor(_, _)
BitXor(a, b) ==
    IF a = 0 THEN b
    ELSE IF b = 0 THEN a
    ELSE (((a % 2) + (b % 2)) % 2) + 2 * BitXor(a \div 2, b \div 2)

\* A 32-bit word as the set of its 1 bits (bit 0 least significant).
Bits(n) == {k \in 0 .. 30 : (n \div (2 ^ k)) % 2 = 1}
\* The integer of a word whose bit 31 is 0.
RECURSIVE Word(_)
Word(w) ==
    IF w = {} THEN 0
    ELSE LET k == CHOOSE b \in w : TRUE IN (2 ^ k) + Word(w \ {k})
\* w << k on 32 bits.
ShlBits(w, k) == {b + k : b \in {c \in w : c + k <= 31}}

RECURSIVE BitLen(_)
BitLen(x) == IF x = 0 THEN 0 ELSE 1 + BitLen(x \div 2)

\* __clz of a 32-bit unsigned integer; 32 for 0.
clz(x) == 32 - BitLen(x)

\* wp.sign of an integer.
sign(x) == IF x < 0 THEN -1 ELSE 1

\* ---------------------------------------------------------------- vectors
vec3(s) == <<s, s, s>>
VMin(a, b) == <<Min(a[1], b[1]), Min(a[2], b[2]), Min(a[3], b[3])>>
VMax(a, b) == <<Max(a[1], b[1]), Max(a[2], b[2]), Max(a[3], b[3])>>

make_aabb(lower, upper) == [lower |-> lower, upper |-> upper]
ZeroAabb == make_aabb(vec3(0), vec3(0))

make_empty_aabb == make_aabb(vec3(PosInf), vec3(NegInf))

\* A faulty variant: the merged box keeps the upper corner of its first argument.
aabb_merge_keeps_first_upper(aabb_0, aabb_1) ==
    [lower |-> VMin(aabb_0.lower, aabb_1.lower),
     upper |-> aabb_0.upper]

aabb_merge(aabb_0, aabb_1) ==
    [lower |-> VMin(aabb_0.lower, aabb_1.lower),
     upper |-> VMax(aabb_0.upper, aabb_1.upper)]

aabb_expand_point(aabb, p) ==
    [lower |-> VMin(aabb.lower, p),
     upper |-> VMax(aabb.upper, p)]

ZeroNode == [aabb |-> ZeroAabb, left_or_leaf |-> 0, escape_index |-> 0]

\* ----------------------------------------------------------- construction
num_internal_nodes == Max(0, num_leaves - 1)
num_total_nodes == Max(0, 2 * num_leaves - 1)

zeros(n, z) == [i \in 0 .. n - 1 |-> z]

\* A faulty variant: the scene AABB is allocated without being zero-filled and
\* holds what the memory held.
Init_scene_not_zeroed ==
    /\ num_leaves \in 0 .. MaxLeaves
    /\ \E boxes \in [0 .. num_leaves - 1 -> InitBoxes] :
         /\ lower_bounds = [i \in 0 .. num_leaves - 1 |-> boxes[i][1]]
         /\ upper_bounds = [i \in 0 .. num_leaves - 1 |-> boxes[i][2]]
    /\ device = <<"cuda:0", "cuda:0">>
    /\ nan_quant = -1
    /\ flags = zeros(num_internal_nodes, 0)
    /\ scene_lower_upper \in {<<vec3(0), vec3(0)>>, <<vec3(PosInf), vec3(NegInf)>>}
    /\ leaf_indices = zeros(num_leaves, 0)
    /\ morton_codes = zeros(num_leaves, 0)
    /\ bound_boxes = zeros(num_total_nodes, ZeroAabb)
    /\ parent_nodes = zeros(num_total_nodes, 0)
    /\ left_nodes = zeros(num_internal_nodes, 0)
    /\ right_nodes = zeros(num_internal_nodes, 0)
    /\ escape_indices = zeros(num_total_nodes, 0)
    /\ bvh_nodes = zeros(num_total_nodes, ZeroNode)
    /\ pc = "rebuild"
    /\ pending = {}
    /\ t_pc = zeros(num_leaves, "done")
    /\ t_current = zeros(num_leaves, 0)
    /\ t_parent = zeros(num_leaves, 0)
    /\ t_aabb = zeros(num_leaves, ZeroAabb)
    /\ box_writes = zeros(num_total_nodes, 0)
    /\ escape_writes = zeros(num_total_nodes, 0)
    /\ verify_errors = 0
    /\ call = "rebuild"
    /\ last_step = "none"
    /\ mutations = 0
    /\ var_int = <<>>
    /\ ret_min_int = <<>>
    /\ ret_max_int = <<>>
    /\ ret_sum_int = <<>>

\* Bvh.__init__ up to the call of rebuild(): the buffers are allocated
\* zero-filled and sized from the number of leaves.
Init ==
    /\ num_leaves \in 0 .. MaxLeaves
    /\ \E boxes \in [0 .. num_leaves - 1 -> InitBoxes] :
         /\ lower_bounds = [i \in 0 .. num_leaves - 1 |-> boxes[i][1]]
         /\ upper_bounds = [i \in 0 .. num_leaves - 1 |-> boxes[i][2]]
    /\ device = <<"cuda:0", "cuda:0">>
    /\ nan_quant = -1
    /\ flags = zeros(num_internal_nodes, 0)
    /\ scene_lower_upper = <<vec3(0), vec3(0)>>
    /\ leaf_indices = zeros(num_leaves, 0)
    /\ morton_codes = zeros(num_leaves, 0)
    /\ bound_boxes = zeros(num_total_nodes, ZeroAabb)
    /\ parent_nodes = zeros(num_total_nodes, 0)
    /\ left_nodes = zeros(num_internal_nodes, 0)
    /\ right_nodes = zeros(num_internal_nodes, 0)
    /\ escape_indices = zeros(num_total_nodes, 0)
    /\ bvh_nodes = zeros(num_total_nodes, ZeroNode)
    /\ pc = "rebuild"
    /\ pending = {}
    /\ t_pc = zeros(num_leaves, "done")
    /\ t_current = zeros(num_leaves, 0)
    /\ t_parent = zeros(num_leaves, 0)
    /\ t_aabb = zeros(num_leaves, ZeroAabb)
    /\ box_writes = zeros(num_total_nodes, 0)
    /\ escape_writes = zeros(num_total_nodes, 0)
    /\ verify_errors = 0
    /\ call = "rebuild"
    /\ last_step = "none"
    /\ mutations = 0
    /\ var_int = <<>>
    /\ ret_min_int = <<>>
    /\ ret_max_int = <<>>
    /\ ret_sum_int = <<>>

\* ------------------------------------------------------ the caller's steps
Idle == pc = "idle"

\* The caller overwrites one input AABB between two calls.
Mutate(i, b) ==
    /\ Idle
    /\ mutations < MaxMutations
    /\ <<lower_bounds[i], upper_bounds[i]>> # b
    /\ lower_bounds' = [lower_bounds EXCEPT ![i] = b[1]]
    /\ upper_bounds' = [upper_bounds EXCEPT ![i] = b[2]]
    /\ mutations' = mutations + 1
    /\ last_step' = "mutate"
    /\ UNCHANGED <<num_leaves, device, nan_quant, arrays, pc, pending,
                   threads, verify_errors, call, reduce_test>>

CallRebuild ==
    /\ Idle
    /\ pc' = "rebuild"
    /\ call' = "rebuild"
    /\ UNCHANGED <<inputs, arrays, pending, threads, verify_errors, last_step,
                   mutations, reduce_test>>

CallRefit ==
    /\ Idle
    /\ pc' = "refit"
    /\ call' = "refit"
    /\ UNCHANGED <<inputs, arrays, pending, threads, verify_errors, last_step,
                   mutations, reduce_test>>

\* ------------------------------------------------------------ rebuild()
\* A faulty variant: rebuild() on an empty hierarchy has no early exit, its
\* first kernel resets the scene AABB before the call returns.
RebuildEmpty_resets_scene ==
    /\ pc = "rebuild"
    /\ num_leaves = 0
    /\ scene_lower_upper' = <<vec3(PosInf), vec3(NegInf)>>
    /\ pc' = "idle"
    /\ last_step' = call
    /\ UNCHANGED <<inputs, flags, leaf_indices, morton_codes, bound_boxes,
                   parent_nodes, left_nodes, right_nodes, escape_indices,
                   bvh_nodes, pending, threads, verify_errors, call, mutations, reduce_test>>

\* rebuild() on an empty hierarchy returns at once.
RebuildEmpty ==
    /\ pc = "rebuild"
    /\ num_leaves = 0
    /\ pc' = "idle"
    /\ last_step' = call
    /\ UNCHANGED <<inputs, arrays, pending, threads, verify_errors, call,
                   mutations, reduce_test>>

\* Lanes the scene kernel is launched with, and its warps.
scene_dim(n) == Min(SmCount * 2, (n + 63) \div 64) * BlockDim
SceneLanes == scene_dim(num_leaves)
SceneWarps == 0 .. (SceneLanes \div WarpSize) - 1

\* The first kernel of rebuild() leaving leaf_indices as the last sort left
\* them.
init_leaf_indices_and_bounds_kernel_keep_indices ==
    /\ pc = "rebuild"
    /\ num_leaves > 0
    /\ leaf_indices' = leaf_indices
    /\ scene_lower_upper' = <<vec3(PosInf), vec3(NegInf)>>
    /\ pc' = "scene"
    /\ pending' = SceneWarps
    /\ UNCHANGED <<inputs, flags, morton_codes, bound_boxes, parent_nodes,
                   left_nodes, right_nodes, escape_indices, bvh_nodes, threads,
                   verify_errors, call, last_step, mutations, reduce_test>>

\* A faulty variant: the first kernel of rebuild() leaves the scene AABB as the
\* last build left it.
init_leaf_indices_and_bounds_kernel_keep_scene ==
    /\ pc = "rebuild"
    /\ num_leaves > 0
    /\ leaf_indices' = [tid \in 0 .. num_leaves - 1 |-> tid]
    /\ pc' = "scene"
    /\ pending' = SceneWarps
    /\ UNCHANGED <<inputs, flags, scene_lower_upper, morton_codes, bound_boxes,
                   parent_nodes, left_nodes, right_nodes, escape_indices,
                   bvh_nodes, threads, verify_errors, call, last_step,
                   mutations, reduce_test>>

init_leaf_indices_and_bounds_kernel ==
    /\ pc = "rebuild"
    /\ num_leaves > 0
    /\ leaf_indices' = [tid \in 0 .. num_leaves - 1 |-> tid]
    /\ scene_lower_upper' = <<vec3(PosInf), vec3(NegInf)>>
    /\ pc' = "scene"
    /\ pending' = SceneWarps
    /\ UNCHANGED <<inputs, flags, morton_codes, bound_boxes, parent_nodes,
                   left_nodes, right_nodes, escape_indices, bvh_nodes, threads,
                   verify_errors, call, last_step, mutations, reduce_test>>

\* A faulty variant: a lane accumulates its first index only.
lane_accumulate_once(tid, acc) ==
    IF tid < num_leaves
    THEN <<VMin(acc[1], lower_bounds[tid]), VMax(acc[2], upper_bounds[tid])>>
    ELSE acc

\* The indices the strided loop of one lane reads.
RECURSIVE lane_visits(_)
lane_visits(tid) ==
    IF tid < num_leaves THEN <<tid>> \o lane_visits(tid + SceneLanes) ELSE <<>>

\* The strided loop of one lane: indices tid, tid + W, ... below count.
RECURSIVE lane_accumulate(_, _)
lane_accumulate(tid, acc) ==
    IF tid < num_leaves
    THEN lane_accumulate(tid + SceneLanes,
                         <<VMin(acc[1], lower_bounds[tid]),
                           VMax(acc[2], upper_bounds[tid])>>)
    ELSE acc

Lanes == 0 .. WarpSize - 1
\* lane XOR lane_mask, for a lane_mask that is a power of two.
XorLane(l, m) == IF (l \div m) % 2 = 0 THEN l + m ELSE l - m
\* A faulty variant: the shuffle reads the lane lane_mask above (shfl_down);
\* a lane with no lane above gets its own value back.
shfl_xor_sync_as_down(var, lane_mask) ==
    [l \in Lanes |-> IF l + lane_mask < WarpSize THEN var[l + lane_mask]
                     ELSE var[l]]
shfl_xor_sync(var, lane_mask) == [l \in Lanes |-> var[XorLane(l, lane_mask)]]

reduce_min_step(var, m) ==
    [l \in Lanes |-> VMin(var[l], shfl_xor_sync(var, m)[l])]
reduce_max_step(var, m) ==
    [l \in Lanes |-> VMax(var[l], shfl_xor_sync(var, m)[l])]

warp_reduce_min(var) ==
    reduce_min_step(reduce_min_step(reduce_min_step(reduce_min_step(
        reduce_min_step(var, 16), 8), 4), 2), 1)
warp_reduce_max(var) ==
    reduce_max_step(reduce_max_step(reduce_max_step(reduce_max_step(
        reduce_max_step(var, 16), 8), 4), 2), 1)

\* One warp of the scene kernel: its lanes accumulate, the warp reduces, and
\* lane 0 commits with atomic min / max.
eval_scene_aabb_kernel(w) ==
    /\ pc = "scene"
    /\ w \in pending
    /\ LET local == [l \in Lanes |->
                        lane_accumulate(w * WarpSize + l,
                                        <<vec3(PosInf), vec3(NegInf)>>)]
           lower == warp_reduce_min([l \in Lanes |-> local[l][1]])
           upper == warp_reduce_max([l \in Lanes |-> local[l][2]])
       IN scene_lower_upper' = <<VMin(scene_lower_upper[1], lower[0]),
                                 VMax(scene_lower_upper[2], upper[0])>>
    /\ pending' = pending \ {w}
    /\ pc' = IF pending' = {} THEN "morton" ELSE "scene"
    /\ UNCHANGED <<inputs, flags, leaf_indices, morton_codes, bound_boxes,
                   parent_nodes, left_nodes, right_nodes, escape_indices,
                   bvh_nodes, threads, verify_errors, call, last_step, mutations, reduce_test>>

\* The masks of the dilation, as words.
Mask_FF0000FF == (0 .. 7) \cup (24 .. 31)
Mask_0F00F00F == (0 .. 3) \cup (12 .. 15) \cup (24 .. 27)
Mask_C30C30C3 == {0, 1, 6, 7, 12, 13, 18, 19, 24, 25, 30, 31}
Mask_49249249 == {0, 3, 6, 9, 12, 15, 18, 21, 24, 27, 30}

interleave_double_zero(bits) ==
    LET b0 == Bits(bits)
        b1 == (b0 \cup ShlBits(b0, 16)) \cap Mask_FF0000FF
        b2 == (b1 \cup ShlBits(b1, 8)) \cap Mask_0F00F00F
        b3 == (b2 \cup ShlBits(b2, 4)) \cap Mask_C30C30C3
    IN Word((b3 \cup ShlBits(b3, 2)) \cap Mask_49249249)

\* int(clamp(p * 1024, 0, 1023)) for p = num / den, the quotient of two
\* integers: x / 0 is +inf or -inf, and 0 / 0 is NaN, which the clamp and the
\* conversion turn into nan.
quantize(num, den, nan) ==
    LET scale_factor == 2 ^ (32 \div 3)
    IN IF den = 0
       THEN IF num = 0 THEN nan
            ELSE IF num > 0 THEN scale_factor - 1 ELSE 0
       ELSE IF (num < 0) # (den < 0) THEN 0
       ELSE LET a == IF num < 0 THEN -num ELSE num
                b == IF den < 0 THEN -den ELSE den
            IN Min((a * scale_factor) \div b, scale_factor - 1)

\* A faulty variant: the dilated x is the least significant and z the most.
morton_encode_x_least(num, den, nan) ==
    LET x00 == interleave_double_zero(quantize(num[1], den[1], nan))
        y00 == interleave_double_zero(quantize(num[2], den[2], nan))
        z00 == interleave_double_zero(quantize(num[3], den[3], nan))
    IN Word(ShlBits(Bits(z00), 2)) + Word(ShlBits(Bits(y00), 1)) + x00

\* morton_encode of the point with coordinates num[k] / den[k].
morton_encode(num, den, nan) ==
    LET x00 == interleave_double_zero(quantize(num[1], den[1], nan))
        y00 == interleave_double_zero(quantize(num[2], den[2], nan))
        z00 == interleave_double_zero(quantize(num[3], den[3], nan))
    IN Word(ShlBits(Bits(x00), 2)) + Word(ShlBits(Bits(y00), 1)) + z00

\* The normalized center of leaf tid in the scene AABB lower_upper:
\* center = (lower + upper) * 0.5 and p = (center - lower_upper[0]) /
\* (lower_upper[1] - lower_upper[0]) per axis, kept as the fractions
\* (lower + upper - 2 lower_upper[0]) / (2 extent).
center_num(lower_upper, tid) ==
    [k \in 1 .. 3 |-> lower_bounds[tid][k] + upper_bounds[tid][k]
                        - 2 * lower_upper[1][k]]
center_den(lower_upper) ==
    [k \in 1 .. 3 |-> 2 * (lower_upper[2][k] - lower_upper[1][k])]

leaf_morton_code(lower_upper, tid, nan) ==
    morton_encode(center_num(lower_upper, tid), center_den(lower_upper), nan)

\* Some leaf's normalized center has a NaN coordinate.
NanArises(lower_upper) ==
    \E tid \in 0 .. num_leaves - 1 : \E k \in 1 .. 3 :
        center_den(lower_upper)[k] = 0 /\ center_num(lower_upper, tid)[k] = 0

\* The quantized value of NaN is a property of the build: unknown (-1) until
\* a kernel first computes it, and the same from then on.
assign_morton_codes_kernel ==
    /\ pc = "morton"
    /\ \E nan \in IF nan_quant = -1 THEN {0, 1023} ELSE {nan_quant} :
         /\ nan_quant' = IF NanArises(scene_lower_upper) THEN nan ELSE nan_quant
         /\ morton_codes' =
              [tid \in 0 .. num_leaves - 1 |->
                  leaf_morton_code(scene_lower_upper, tid, nan)]
    /\ pc' = "sort"
    /\ UNCHANGED <<num_leaves, lower_bounds, upper_bounds, device, flags,
                   scene_lower_upper, leaf_indices, bound_boxes, parent_nodes,
                   left_nodes, right_nodes, escape_indices, bvh_nodes, pending,
                   threads, verify_errors, call, last_step, mutations, reduce_test>>

\* The position element i of keys takes in a stable ascending sort.
sorted_position(keys, i) ==
    Cardinality({j \in DOMAIN keys :
                    keys[j] < keys[i] \/ (keys[j] = keys[i] /\ j < i)})
\* The element a stable ascending sort puts at position k.
sorted_source(keys, k) ==
    CHOOSE i \in DOMAIN keys : sorted_position(keys, i) = k

\* wp_radix_sort_pairs_int_device: the keys ascending, and the values moved
\* in lockstep.
sorted_keys(keys) ==
    [k \in DOMAIN keys |-> keys[sorted_source(keys, k)]]
sorted_values(keys, values) ==
    [k \in DOMAIN keys |-> values[sorted_source(keys, k)]]

\* A faulty variant: the sort moves the caller's boxes into key order too.
radix_sort_pairs_moves_boxes ==
    /\ pc = "sort"
    /\ morton_codes' = sorted_keys(morton_codes)
    /\ leaf_indices' = sorted_values(morton_codes, leaf_indices)
    /\ lower_bounds' = sorted_values(morton_codes, lower_bounds)
    /\ upper_bounds' = sorted_values(morton_codes, upper_bounds)
    /\ pc' = "construct"
    /\ pending' = 0 .. num_internal_nodes - 1
    /\ UNCHANGED <<num_leaves, device, nan_quant, flags, scene_lower_upper,
                   bound_boxes, parent_nodes, left_nodes, right_nodes,
                   escape_indices, bvh_nodes, threads, verify_errors, call,
                   last_step, mutations, reduce_test>>

radix_sort_pairs ==
    /\ pc = "sort"
    /\ morton_codes' = sorted_keys(morton_codes)
    /\ leaf_indices' = sorted_values(morton_codes, leaf_indices)
    /\ pc' = "construct"
    /\ pending' = 0 .. num_internal_nodes - 1
    /\ UNCHANGED <<inputs, flags, scene_lower_upper, bound_boxes, parent_nodes,
                   left_nodes, right_nodes, escape_indices, bvh_nodes, threads,
                   verify_errors, call, last_step, mutations, reduce_test>>

\* ------------------------------------------------------ radix tree (Karras)
\* common_prefix without the extension by the positions of equal keys.
common_prefix_no_tiebreak(m0, m1, i, j) ==
    IF m0 # m1 THEN clz(BitXor(m0, m1)) ELSE 32

\* A faulty variant: equal keys are told apart by the distance of their positions.
common_prefix_by_distance(m0, m1, i, j) ==
    IF m0 # m1 THEN clz(BitXor(m0, m1))
    ELSE clz(IF i < j THEN j - i ELSE i - j) + 32

\* The length of the common prefix of two keys, extended by that of their
\* positions when the keys are equal.
common_prefix(m0, m1, i, j) ==
    IF m0 # m1 THEN clz(BitXor(m0, m1)) ELSE clz(BitXor(i, j)) + 32

\* A faulty variant: a position outside the array counts as sharing every bit.
delta_outside_shares_all(m0, sorted_morton_codes, i, j, n) ==
    IF 0 <= j /\ j < n
    THEN common_prefix(m0, sorted_morton_codes[j], i, j)
    ELSE 64

delta(m0, sorted_morton_codes, i, j, n) ==
    IF 0 <= j /\ j < n
    THEN common_prefix(m0, sorted_morton_codes[j], i, j)
    ELSE -1

\* The doubling loop of determine_range.
RECURSIVE range_expand(_, _, _, _, _, _, _)
range_expand(m0, codes, i, n, d, d_min, lmax) ==
    IF delta(m0, codes, i, i + lmax * d, n) > d_min
    THEN range_expand(m0, codes, i, n, d, d_min, lmax * 2)
    ELSE lmax

\* A faulty variant: the binary search of determine_range stops before the step
\* t = 1.
RECURSIVE range_search_no_last_step(_, _, _, _, _, _, _, _)
range_search_no_last_step(m0, codes, i, n, d, d_min, l, t) ==
    IF t > 1
    THEN range_search_no_last_step(m0, codes, i, n, d, d_min,
                      IF delta(m0, codes, i, i + (l + t) * d, n) > d_min
                      THEN l + t ELSE l,
                      t \div 2)
    ELSE l

\* The binary search of determine_range.
RECURSIVE range_search(_, _, _, _, _, _, _, _)
range_search(m0, codes, i, n, d, d_min, l, t) ==
    IF t >= 1
    THEN range_search(m0, codes, i, n, d, d_min,
                      IF delta(m0, codes, i, i + (l + t) * d, n) > d_min
                      THEN l + t ELSE l,
                      t \div 2)
    ELSE l

determine_range(codes, i, n) ==
    LET m0 == codes[i]
        d_l == delta(m0, codes, i, i - 1, n)
        d_r == delta(m0, codes, i, i + 1, n)
        d == sign(d_r - d_l)
        d_min == Min(d_l, d_r)
        lmax == range_expand(m0, codes, i, n, d, d_min, 2)
        l == range_search(m0, codes, i, n, d, d_min, 0, lmax \div 2)
        j == i + l * d
    IN <<Min(i, j), Max(i, j)>>

\* A faulty variant: the step of the loop of find_split is halved rounding down.
RECURSIVE split_search_floor(_, _, _, _, _, _, _)
split_search_floor(codes, first, last, first_code, d_min, split, step) ==
    IF step > 1
    THEN LET step2 == step \div 2
             new_split == split + step2
         IN split_search_floor(codes, first, last, first_code, d_min,
                IF /\ new_split < last
                   /\ common_prefix(first_code, codes[new_split],
                                    first, new_split) > d_min
                THEN new_split ELSE split,
                step2)
    ELSE split

\* The loop of find_split.
RECURSIVE split_search(_, _, _, _, _, _, _)
split_search(codes, first, last, first_code, d_min, split, step) ==
    IF step > 1
    THEN LET step2 == (step + 1) \div 2
             new_split == split + step2
         IN split_search(codes, first, last, first_code, d_min,
                IF /\ new_split < last
                   /\ common_prefix(first_code, codes[new_split],
                                    first, new_split) > d_min
                THEN new_split ELSE split,
                step2)
    ELSE split

find_split(codes, first, last) ==
    LET last_code == codes[last]
        first_code == codes[first]
        d_min == common_prefix(first_code, last_code, first, last)
    IN split_search(codes, first, last, first_code, d_min, first, last - first)

\* node_children without the offset N-1 on a leaf child.
node_children_no_leaf_offset(codes, i, n) ==
    LET range == determine_range(codes, i, n)
        split == find_split(codes, range[1], range[2])
    IN <<split, split + 1>>

\* node_children cutting every range after its first position.
node_children_first_split(codes, i, n) ==
    LET range == determine_range(codes, i, n)
        first == range[1]
        last == range[2]
        left == first + n - 1
        right == IF last = first + 1 THEN first + 1 + n - 1 ELSE first + 1
    IN <<left, right>>

\* node_children with the two children exchanged.
node_children_swapped(codes, i, n) ==
    LET range == determine_range(codes, i, n)
        first == range[1]
        last == range[2]
        split == find_split(codes, first, last)
        left == IF first = split THEN split + n - 1 ELSE split
        right == IF last = split + 1 THEN split + 1 + n - 1 ELSE split + 1
    IN <<right, left>>

\* A faulty variant: a leaf child is offset by N, not by N-1.
node_children_offset_n(codes, i, n) ==
    LET range == determine_range(codes, i, n)
        first == range[1]
        last == range[2]
        split == find_split(codes, first, last)
        left == IF first = split THEN split + n ELSE split
        right == IF last = split + 1 THEN split + 1 + n ELSE split + 1
    IN <<left, right>>

\* The two children thread i writes, as <<left, right>>.
node_children(codes, i, n) ==
    LET range == determine_range(codes, i, n)
        first == range[1]
        last == range[2]
        split == find_split(codes, first, last)
        left == IF first = split THEN split + n - 1 ELSE split
        right == IF last = split + 1 THEN split + 1 + n - 1 ELSE split + 1
    IN <<left, right>>

\* The tree kernel without the store of -1 to parent_nodes[0].
construct_binary_radix_tree_kernel_no_root_parent(i) ==
    /\ pc = "construct"
    /\ num_leaves > 1
    /\ i \in pending
    /\ LET lr == node_children(morton_codes, i, num_leaves)
           p1 == [parent_nodes EXCEPT ![lr[1]] = i]
       IN /\ left_nodes' = [left_nodes EXCEPT ![i] = lr[1]]
          /\ right_nodes' = [right_nodes EXCEPT ![i] = lr[2]]
          /\ parent_nodes' = [p1 EXCEPT ![lr[2]] = i]
    /\ pending' = pending \ {i}
    /\ pc' = IF pending' = {} THEN "verify" ELSE "construct"
    /\ UNCHANGED <<inputs, flags, scene_lower_upper, leaf_indices, morton_codes,
                   bound_boxes, escape_indices, bvh_nodes, threads,
                   verify_errors, call, last_step, mutations, reduce_test>>

\* Thread i of the tree kernel (launched for more than one leaf).
construct_binary_radix_tree_kernel(i) ==
    /\ pc = "construct"
    /\ num_leaves > 1
    /\ i \in pending
    /\ LET lr == node_children(morton_codes, i, num_leaves)
           p1 == [parent_nodes EXCEPT ![lr[1]] = i]
           p2 == [p1 EXCEPT ![lr[2]] = i]
       IN /\ left_nodes' = [left_nodes EXCEPT ![i] = lr[1]]
          /\ right_nodes' = [right_nodes EXCEPT ![i] = lr[2]]
          /\ parent_nodes' = IF i = 0 THEN [p2 EXCEPT ![0] = -1] ELSE p2
    /\ pending' = pending \ {i}
    /\ pc' = IF pending' = {} THEN "verify" ELSE "construct"
    /\ UNCHANGED <<inputs, flags, scene_lower_upper, leaf_indices, morton_codes,
                   bound_boxes, escape_indices, bvh_nodes, threads,
                   verify_errors, call, last_step, mutations, reduce_test>>

\* A faulty variant: the single-leaf branch launches nothing and stores nothing.
fill_parent_nodes_skipped ==
    /\ pc = "construct"
    /\ num_leaves <= 1
    /\ pc' = "verify"
    /\ UNCHANGED <<inputs, arrays, pending, threads, verify_errors, call,
                   last_step, mutations, reduce_test>>

\* A single leaf: parent_nodes.fill_(-1) in place of the tree kernel.
fill_parent_nodes ==
    /\ pc = "construct"
    /\ num_leaves <= 1
    /\ parent_nodes' = [v \in DOMAIN parent_nodes |-> -1]
    /\ pc' = "verify"
    /\ UNCHANGED <<inputs, flags, scene_lower_upper, leaf_indices, morton_codes,
                   bound_boxes, left_nodes, right_nodes, escape_indices,
                   bvh_nodes, pending, threads, verify_errors, call, last_step,
                   mutations, reduce_test>>

\* The lines thread tid of the verification kernel prints.
verify_thread_errors(tid) ==
    LET left == left_nodes[tid]
        right == right_nodes[tid]
        parent == parent_nodes[tid]
        bad_child(c) ==
            IF ~(0 < c /\ c < num_total_nodes) THEN TRUE
            ELSE parent_nodes[c] # tid
        bad_parent ==
            IF ~(-1 <= parent /\ parent < num_internal_nodes) THEN TRUE
            ELSE IF tid = 0 /\ parent # -1 THEN TRUE
            ELSE IF tid # 0 /\ parent = -1 THEN TRUE
            ELSE IF parent # -1
                 THEN left_nodes[parent] # tid /\ right_nodes[parent] # tid
                 ELSE FALSE
    IN (IF tid < num_internal_nodes /\ bad_child(left) THEN {"left"} ELSE {})
       \cup (IF tid < num_internal_nodes /\ bad_child(right) THEN {"right"} ELSE {})
       \cup (IF bad_parent THEN {"parent"} ELSE {})

verify_binary_radix_tree_kernel ==
    /\ pc = "verify"
    /\ verify_errors' =
         Cardinality({e \in (0 .. num_total_nodes - 1) \X {"left", "right", "parent"} :
                         e[2] \in verify_thread_errors(e[1])})
    /\ pc' = "escape"
    /\ pending' = 0 .. num_leaves - 1
    /\ escape_writes' = zeros(num_total_nodes, 0)
    /\ UNCHANGED <<inputs, arrays, t_pc, t_current, t_parent, t_aabb, box_writes,
                   call, last_step, mutations, reduce_test>>

\* escape_walk descending by the left child.
RECURSIVE escape_walk_left(_, _, _)
escape_walk_left(escape, current_index, escape_index) ==
    IF current_index < num_internal_nodes
    THEN LET next == left_nodes[current_index]
         IN escape_walk_left([escape EXCEPT ![next] = escape_index], next,
                             escape_index)
    ELSE escape

\* The walk of one escape thread down the right spine, from current_index.
RECURSIVE escape_walk(_, _, _)
escape_walk(escape, current_index, escape_index) ==
    IF current_index < num_internal_nodes
    THEN LET next == right_nodes[current_index]
         IN escape_walk([escape EXCEPT ![next] = escape_index], next, escape_index)
    ELSE escape

\* The entries of escape_indices one escape thread stores to, in order: the
\* node it starts at and the nodes of the right spine below it.
RECURSIVE escape_stores(_)
escape_stores(current_index) ==
    IF current_index < num_internal_nodes
    THEN <<current_index>> \o escape_stores(right_nodes[current_index])
    ELSE <<current_index>>

\* The store counts after the stores of one thread.
count_stores(writes, stores) ==
    [v \in DOMAIN writes |->
        writes[v] + Cardinality({k \in 1 .. Len(stores) : stores[k] = v})]

\* The escape kernel with the threads past the internal nodes idle.
assign_escape_indices_kernel_internal_only(tid) ==
    /\ pc = "escape"
    /\ tid \in pending
    /\ escape_indices' =
         IF tid < num_internal_nodes
         THEN escape_walk([escape_indices EXCEPT ![left_nodes[tid]] = right_nodes[tid]],
                          left_nodes[tid], right_nodes[tid])
         ELSE escape_indices
    /\ escape_writes' =
         IF tid < num_internal_nodes
         THEN count_stores(escape_writes, escape_stores(left_nodes[tid]))
         ELSE escape_writes
    /\ pending' = pending \ {tid}
    /\ pc' = IF pending' = {} THEN "refit" ELSE "escape"
    /\ UNCHANGED <<inputs, flags, scene_lower_upper, leaf_indices, morton_codes,
                   bound_boxes, parent_nodes, left_nodes, right_nodes, bvh_nodes,
                   t_pc, t_current, t_parent, t_aabb, box_writes, verify_errors,
                   call, last_step, mutations, reduce_test>>

\* The escape kernel without the store to the node a thread starts at.
assign_escape_indices_kernel_spine_only(tid) ==
    /\ pc = "escape"
    /\ tid \in pending
    /\ LET current_index == IF tid < num_internal_nodes THEN left_nodes[tid] ELSE 0
           escape_index == IF tid < num_internal_nodes THEN right_nodes[tid] ELSE -1
       IN /\ escape_indices' = escape_walk(escape_indices, current_index, escape_index)
          /\ escape_writes' =
               count_stores(escape_writes, Tail(escape_stores(current_index)))
    /\ pending' = pending \ {tid}
    /\ pc' = IF pending' = {} THEN "refit" ELSE "escape"
    /\ UNCHANGED <<inputs, flags, scene_lower_upper, leaf_indices, morton_codes,
                   bound_boxes, parent_nodes, left_nodes, right_nodes, bvh_nodes,
                   t_pc, t_current, t_parent, t_aabb, box_writes, verify_errors,
                   call, last_step, mutations, reduce_test>>

\* A faulty variant: a thread of an internal node starts its walk at that node,
\* not at the node's left child.
assign_escape_indices_kernel_from_own_node(tid) ==
    /\ pc = "escape"
    /\ tid \in pending
    /\ LET current_index == IF tid < num_internal_nodes THEN tid ELSE 0
           escape_index == IF tid < num_internal_nodes THEN right_nodes[tid] ELSE -1
       IN /\ escape_indices' =
               escape_walk([escape_indices EXCEPT ![current_index] = escape_index],
                           current_index, escape_index)
          /\ escape_writes' =
               count_stores(escape_writes, escape_stores(current_index))
    /\ pending' = pending \ {tid}
    /\ pc' = IF pending' = {} THEN "refit" ELSE "escape"
    /\ UNCHANGED <<inputs, flags, scene_lower_upper, leaf_indices, morton_codes,
                   bound_boxes, parent_nodes, left_nodes, right_nodes, bvh_nodes,
                   t_pc, t_current, t_parent, t_aabb, box_writes, verify_errors,
                   call, last_step, mutations, reduce_test>>

\* A faulty variant: the thread past the internal nodes stores at node 0 and does
\* not walk the right spine.
assign_escape_indices_kernel_root_only(tid) ==
    /\ pc = "escape"
    /\ tid \in pending
    /\ LET current_index == IF tid < num_internal_nodes THEN left_nodes[tid] ELSE 0
           escape_index == IF tid < num_internal_nodes THEN right_nodes[tid] ELSE -1
       IN IF tid < num_internal_nodes
          THEN /\ escape_indices' =
                    escape_walk([escape_indices EXCEPT ![current_index] = escape_index],
                                current_index, escape_index)
               /\ escape_writes' =
                    count_stores(escape_writes, escape_stores(current_index))
          ELSE /\ escape_indices' = [escape_indices EXCEPT ![0] = -1]
               /\ escape_writes' = [escape_writes EXCEPT ![0] = @ + 1]
    /\ pending' = pending \ {tid}
    /\ pc' = IF pending' = {} THEN "refit" ELSE "escape"
    /\ UNCHANGED <<inputs, flags, scene_lower_upper, leaf_indices, morton_codes,
                   bound_boxes, parent_nodes, left_nodes, right_nodes, bvh_nodes,
                   t_pc, t_current, t_parent, t_aabb, box_writes, verify_errors,
                   call, last_step, mutations, reduce_test>>

\* Thread tid of the escape kernel (launched with one thread per leaf).
assign_escape_indices_kernel(tid) ==
    /\ pc = "escape"
    /\ tid \in pending
    /\ LET current_index == IF tid < num_internal_nodes THEN left_nodes[tid] ELSE 0
           escape_index == IF tid < num_internal_nodes THEN right_nodes[tid] ELSE -1
       IN /\ escape_indices' =
               escape_walk([escape_indices EXCEPT ![current_index] = escape_index],
                           current_index, escape_index)
          /\ escape_writes' =
               count_stores(escape_writes, escape_stores(current_index))
    /\ pending' = pending \ {tid}
    /\ pc' = IF pending' = {} THEN "refit" ELSE "escape"
    /\ UNCHANGED <<inputs, flags, scene_lower_upper, leaf_indices, morton_codes,
                   bound_boxes, parent_nodes, left_nodes, right_nodes, bvh_nodes,
                   t_pc, t_current, t_parent, t_aabb, box_writes, verify_errors,
                   call, last_step, mutations, reduce_test>>

\* -------------------------------------------------------------- refit()
\* refit() on an empty hierarchy returns at once.
RefitEmpty ==
    /\ pc = "refit"
    /\ num_leaves = 0
    /\ pc' = "idle"
    /\ last_step' = call
    /\ UNCHANGED <<inputs, arrays, pending, threads, verify_errors, call,
                   mutations, reduce_test>>

\* The launch of the refit kernel on the flags the last launch left.
fill_flags_stale ==
    /\ pc = "refit"
    /\ num_leaves > 0
    /\ flags' = flags
    /\ t_pc' = [tid \in 0 .. num_leaves - 1 |-> "start"]
    /\ pc' = "boxes"
    /\ UNCHANGED <<inputs, scene_lower_upper, leaf_indices, morton_codes,
                   bound_boxes, parent_nodes, left_nodes, right_nodes,
                   escape_indices, bvh_nodes, pending, t_current, t_parent,
                   t_aabb, box_writes, escape_writes, verify_errors, call, last_step,
                   mutations, reduce_test>>

\* A faulty variant: refit() resets the leaf order before its launch, as the
\* first kernel of rebuild() does.
fill_flags_resets_leaf_indices ==
    /\ pc = "refit"
    /\ num_leaves > 0
    /\ flags' = [p \in DOMAIN flags |-> 0]
    /\ leaf_indices' = [tid \in 0 .. num_leaves - 1 |-> tid]
    /\ t_pc' = [tid \in 0 .. num_leaves - 1 |-> "start"]
    /\ pc' = "boxes"
    /\ UNCHANGED <<inputs, scene_lower_upper, morton_codes,
                   bound_boxes, parent_nodes, left_nodes, right_nodes,
                   escape_indices, bvh_nodes, pending, t_current, t_parent,
                   t_aabb, box_writes, escape_writes, verify_errors, call, last_step,
                   mutations, reduce_test>>

\* A faulty variant: the flags are zeroed only in the refit() that ends rebuild().
fill_flags_in_rebuild_only ==
    /\ pc = "refit"
    /\ num_leaves > 0
    /\ flags' = IF call = "rebuild" THEN [p \in DOMAIN flags |-> 0] ELSE flags
    /\ t_pc' = [tid \in 0 .. num_leaves - 1 |-> "start"]
    /\ pc' = "boxes"
    /\ UNCHANGED <<inputs, scene_lower_upper, leaf_indices, morton_codes,
                   bound_boxes, parent_nodes, left_nodes, right_nodes,
                   escape_indices, bvh_nodes, pending, t_current, t_parent,
                   t_aabb, box_writes, escape_writes, verify_errors, call, last_step,
                   mutations, reduce_test>>

\* self._flags.fill_(0), then the launch of the refit kernel.
fill_flags ==
    /\ pc = "refit"
    /\ num_leaves > 0
    /\ flags' = [p \in DOMAIN flags |-> 0]
    /\ t_pc' = [tid \in 0 .. num_leaves - 1 |-> "start"]
    /\ pc' = "boxes"
    /\ UNCHANGED <<inputs, scene_lower_upper, leaf_indices, morton_codes,
                   bound_boxes, parent_nodes, left_nodes, right_nodes,
                   escape_indices, bvh_nodes, pending, t_current, t_parent,
                   t_aabb, box_writes, escape_writes, verify_errors, call, last_step,
                   mutations, reduce_test>>

\* bound_boxes[index] = aabb as the other threads see it: the store of a thread
\* that goes on to its fence reaches memory at that fence, the store of a
\* thread that leaves the kernel (parent_index = -1) by the end of the launch.
store(index, aabb, parent_index) ==
    IF parent_index # -1 THEN bound_boxes
    ELSE [bound_boxes EXCEPT ![index] = aabb]

\* threadfence(): the store thread tid made before it, of its box t_aabb at
\* node t_current, is in memory for every thread when the fence returns.
threadfence(tid) ==
    [bound_boxes EXCEPT ![t_current[tid]] = t_aabb[tid]]

\* A faulty variant: the leaf box is read at the thread's own position, not at the
\* leaf the sorted position refers to.
assign_bounding_boxes_leaf_unsorted(tid) ==
    /\ pc = "boxes"
    /\ t_pc[tid] = "start"
    /\ LET current_index == num_leaves - 1 + tid
           parent_index == parent_nodes[current_index]
           aabb == make_aabb(lower_bounds[tid], upper_bounds[tid])
       IN /\ t_current' = [t_current EXCEPT ![tid] = current_index]
          /\ t_parent' = [t_parent EXCEPT ![tid] = parent_index]
          /\ t_aabb' = [t_aabb EXCEPT ![tid] = aabb]
          /\ bound_boxes' = store(current_index, aabb, parent_index)
          /\ box_writes' = [box_writes EXCEPT ![current_index] = @ + 1]
          /\ t_pc' = [t_pc EXCEPT ![tid] =
                        IF parent_index # -1 THEN "loop" ELSE "done"]
    /\ UNCHANGED <<inputs, flags, scene_lower_upper, leaf_indices, morton_codes,
                   parent_nodes, left_nodes, right_nodes, escape_indices,
                   bvh_nodes, pc, pending, escape_writes, verify_errors, call, last_step,
                   mutations, reduce_test>>

\* A refit thread up to its store of the leaf box.
assign_bounding_boxes_leaf(tid) ==
    /\ pc = "boxes"
    /\ t_pc[tid] = "start"
    /\ LET leaf_index == leaf_indices[tid]
           current_index == num_leaves - 1 + tid
           parent_index == parent_nodes[current_index]
           aabb == make_aabb(lower_bounds[leaf_index], upper_bounds[leaf_index])
       IN /\ t_current' = [t_current EXCEPT ![tid] = current_index]
          /\ t_parent' = [t_parent EXCEPT ![tid] = parent_index]
          /\ t_aabb' = [t_aabb EXCEPT ![tid] = aabb]
          /\ bound_boxes' = store(current_index, aabb, parent_index)
          /\ box_writes' = [box_writes EXCEPT ![current_index] = @ + 1]
          /\ t_pc' = [t_pc EXCEPT ![tid] =
                        IF parent_index # -1 THEN "loop" ELSE "done"]
    /\ UNCHANGED <<inputs, flags, scene_lower_upper, leaf_indices, morton_codes,
                   parent_nodes, left_nodes, right_nodes, escape_indices,
                   bvh_nodes, pc, pending, escape_writes, verify_errors, call,
                   last_step, mutations, reduce_test>>

\* A faulty variant: the first arrival goes on to merge and the second returns.
assign_bounding_boxes_arrive_first(tid) ==
    /\ pc = "boxes"
    /\ t_pc[tid] = "loop"
    /\ bound_boxes' = threadfence(tid)
    /\ flags' = [flags EXCEPT ![t_parent[tid]] = @ + 1]
    /\ t_pc' = [t_pc EXCEPT ![tid] =
                  IF flags[t_parent[tid]] = 0 THEN "merge" ELSE "done"]
    /\ UNCHANGED <<inputs, scene_lower_upper, leaf_indices, morton_codes,
                   parent_nodes, left_nodes, right_nodes,
                   escape_indices, bvh_nodes, pc, pending, t_current, t_parent,
                   t_aabb, box_writes, escape_writes, verify_errors, call, last_step,
                   mutations, reduce_test>>

\* A faulty variant: every arrival goes on to merge, the first one too.
assign_bounding_boxes_arrive_both_merge(tid) ==
    /\ pc = "boxes"
    /\ t_pc[tid] = "loop"
    /\ bound_boxes' = threadfence(tid)
    /\ flags' = [flags EXCEPT ![t_parent[tid]] = @ + 1]
    /\ t_pc' = [t_pc EXCEPT ![tid] = "merge"]
    /\ UNCHANGED <<inputs, scene_lower_upper, leaf_indices, morton_codes,
                   parent_nodes, left_nodes, right_nodes,
                   escape_indices, bvh_nodes, pc, pending, t_current, t_parent,
                   t_aabb, box_writes, escape_writes, verify_errors, call, last_step,
                   mutations, reduce_test>>

\* A faulty variant: the atomic increment without the threadfence() before it.
assign_bounding_boxes_arrive_no_fence(tid) ==
    /\ pc = "boxes"
    /\ t_pc[tid] = "loop"
    /\ flags' = [flags EXCEPT ![t_parent[tid]] = @ + 1]
    /\ t_pc' = [t_pc EXCEPT ![tid] =
                  IF flags[t_parent[tid]] = 1 THEN "merge" ELSE "done"]
    /\ UNCHANGED <<inputs, scene_lower_upper, leaf_indices, morton_codes,
                   bound_boxes, parent_nodes, left_nodes, right_nodes,
                   escape_indices, bvh_nodes, pc, pending, t_current, t_parent,
                   t_aabb, box_writes, escape_writes, verify_errors, call, last_step,
                   mutations, reduce_test>>

\* threadfence() and the atomic increment of the parent's flag: the second
\* arrival goes on to merge, the first returns.
assign_bounding_boxes_arrive(tid) ==
    /\ pc = "boxes"
    /\ t_pc[tid] = "loop"
    /\ bound_boxes' = threadfence(tid)
    /\ flags' = [flags EXCEPT ![t_parent[tid]] = @ + 1]
    /\ t_pc' = [t_pc EXCEPT ![tid] =
                  IF flags[t_parent[tid]] = 1 THEN "merge" ELSE "done"]
    /\ UNCHANGED <<inputs, scene_lower_upper, leaf_indices, morton_codes,
                   parent_nodes, left_nodes, right_nodes,
                   escape_indices, bvh_nodes, pc, pending, t_current, t_parent,
                   t_aabb, box_writes, escape_writes, verify_errors, call, last_step,
                   mutations, reduce_test>>

\* A faulty variant: the second arrival always merges with the right child's box.
merged_box_right_only(aabb, current_index, parent_index) ==
    aabb_merge(aabb, bound_boxes[right_nodes[parent_index]])

\* The box a second arrival stores at parent_index: its own box merged with
\* the sibling's box as stored in bound_boxes.
merged_box(aabb, current_index, parent_index) ==
    LET right_child == right_nodes[parent_index]
        left_child == left_nodes[parent_index]
    IN IF current_index = left_child
       THEN aabb_merge(aabb, bound_boxes[right_child])
       ELSE IF current_index = right_child
       THEN aabb_merge(aabb, bound_boxes[left_child])
       ELSE aabb

\* A faulty variant: the second arrival merges and stores at the parent but goes
\* round the loop again from the node it came from.
assign_bounding_boxes_merge_stays(tid) ==
    /\ pc = "boxes"
    /\ t_pc[tid] = "merge"
    /\ LET parent_index == t_parent[tid]
           aabb == merged_box(t_aabb[tid], t_current[tid], parent_index)
       IN /\ t_aabb' = [t_aabb EXCEPT ![tid] = aabb]
          /\ bound_boxes' = [bound_boxes EXCEPT ![parent_index] = aabb]
          /\ box_writes' = [box_writes EXCEPT ![parent_index] = @ + 1]
          /\ t_pc' = [t_pc EXCEPT ![tid] = "loop"]
    /\ UNCHANGED <<inputs, flags, scene_lower_upper, leaf_indices, morton_codes,
                   parent_nodes, left_nodes, right_nodes, escape_indices,
                   bvh_nodes, pc, pending, escape_writes, t_current, t_parent, verify_errors,
                   call, last_step, mutations, reduce_test>>

\* The second arrival merges, moves up and stores the parent's box.
assign_bounding_boxes_merge(tid) ==
    /\ pc = "boxes"
    /\ t_pc[tid] = "merge"
    /\ LET parent_index == t_parent[tid]
           aabb == merged_box(t_aabb[tid], t_current[tid], parent_index)
           next_parent == parent_nodes[parent_index]
       IN /\ t_aabb' = [t_aabb EXCEPT ![tid] = aabb]
          /\ t_current' = [t_current EXCEPT ![tid] = parent_index]
          /\ t_parent' = [t_parent EXCEPT ![tid] = next_parent]
          /\ bound_boxes' = store(parent_index, aabb, next_parent)
          /\ box_writes' = [box_writes EXCEPT ![parent_index] = @ + 1]
          /\ t_pc' = [t_pc EXCEPT ![tid] =
                        IF next_parent # -1 THEN "loop" ELSE "done"]
    /\ UNCHANGED <<inputs, flags, scene_lower_upper, leaf_indices, morton_codes,
                   parent_nodes, left_nodes, right_nodes, escape_indices,
                   bvh_nodes, pc, pending, escape_writes, verify_errors, call,
                   last_step, mutations, reduce_test>>

\* compact_node with the leaf link negated but not shifted by one.
compact_node_leaf_link_unshifted(tid) ==
    [aabb |-> bound_boxes[tid],
     left_or_leaf |->
        IF tid < num_leaves - 1
        THEN left_nodes[tid]
        ELSE -leaf_indices[tid - (num_leaves - 1)],
     escape_index |-> escape_indices[tid]]

\* The record the linearizer stores for node tid.
compact_node(tid) ==
    [aabb |-> bound_boxes[tid],
     left_or_leaf |->
        IF tid < num_leaves - 1
        THEN left_nodes[tid]
        ELSE -leaf_indices[tid - (num_leaves - 1)] - 1,
     escape_index |-> escape_indices[tid]]

\* The return of a call whose linearizer runs in rebuild() only.
compact_bvh_nodes_kernel_rebuild_only ==
    /\ pc = "boxes"
    /\ \A tid \in 0 .. num_leaves - 1 : t_pc[tid] = "done"
    /\ bvh_nodes' = IF call = "rebuild"
                    THEN [tid \in 0 .. num_total_nodes - 1 |-> compact_node(tid)]
                    ELSE bvh_nodes
    /\ t_current' = zeros(num_leaves, 0)
    /\ t_parent' = zeros(num_leaves, 0)
    /\ t_aabb' = zeros(num_leaves, ZeroAabb)
    /\ box_writes' = zeros(num_total_nodes, 0)
    /\ UNCHANGED escape_writes
    /\ pc' = "idle"
    /\ last_step' = call
    /\ UNCHANGED <<inputs, flags, scene_lower_upper, leaf_indices, morton_codes,
                   bound_boxes, parent_nodes, left_nodes, right_nodes,
                   escape_indices, pending, t_pc, verify_errors, call,
                   mutations, reduce_test>>

\* The refit kernel has completed: the linearizer runs and the call returns.
compact_bvh_nodes_kernel ==
    /\ pc = "boxes"
    /\ \A tid \in 0 .. num_leaves - 1 : t_pc[tid] = "done"
    /\ bvh_nodes' = [tid \in 0 .. num_total_nodes - 1 |-> compact_node(tid)]
    /\ t_current' = zeros(num_leaves, 0)
    /\ t_parent' = zeros(num_leaves, 0)
    /\ t_aabb' = zeros(num_leaves, ZeroAabb)
    /\ box_writes' = zeros(num_total_nodes, 0)
    /\ UNCHANGED escape_writes
    /\ pc' = "idle"
    /\ last_step' = call
    /\ UNCHANGED <<inputs, flags, scene_lower_upper, leaf_indices, morton_codes,
                   bound_boxes, parent_nodes, left_nodes, right_nodes,
                   escape_indices, pending, t_pc, verify_errors, call,
                   mutations, reduce_test>>

\* ------------------------------------------------------------ specification
Next ==
    \/ \E i \in 0 .. num_leaves - 1 : \E b \in Boxes : Mutate(i, b)
    \/ CallRebuild
    \/ CallRefit
    \/ RebuildEmpty
    \/ init_leaf_indices_and_bounds_kernel
    \/ \E w \in SceneWarps : eval_scene_aabb_kernel(w)
    \/ assign_morton_codes_kernel
    \/ radix_sort_pairs
    \/ \E i \in 0 .. num_leaves - 2 : construct_binary_radix_tree_kernel(i)
    \/ fill_parent_nodes
    \/ verify_binary_radix_tree_kernel
    \/ \E tid \in 0 .. num_leaves - 1 : assign_escape_indices_kernel(tid)
    \/ RefitEmpty
    \/ fill_flags
    \/ \E tid \in 0 .. num_leaves - 1 : assign_bounding_boxes_leaf(tid)
    \/ \E tid \in 0 .. num_leaves - 1 : assign_bounding_boxes_arrive(tid)
    \/ \E tid \in 0 .. num_leaves - 1 : assign_bounding_boxes_merge(tid)
    \/ compact_bvh_nodes_kernel

Spec == Init /\ [][Next]_vars

\* ------------------------------------------- the tree kernels on chosen keys
\* The kernels that make the topology read the sorted keys and nothing else
\* of what steps 1 to 4 of rebuild() produce.  SpecTree runs them on every
\* non-decreasing key sequence over TreeKeys, first on the zero-filled
\* buffers of a new Bvh and then again, on the buffers as the last build
\* left them, for the keys of a later rebuild().
SortedKeys(n) ==
    {keys \in [0 .. n - 1 -> TreeKeys] :
        \A k \in 0 .. n - 2 : keys[k] <= keys[k + 1]}

InitTree ==
    /\ num_leaves \in 1 .. MaxTreeLeaves
    /\ lower_bounds = [i \in 0 .. num_leaves - 1 |-> <<0, 0, 0>>]
    /\ upper_bounds = [i \in 0 .. num_leaves - 1 |-> <<1, 1, 1>>]
    /\ device = <<"cuda:0", "cuda:0">>
    /\ nan_quant = -1
    /\ flags = zeros(num_internal_nodes, 0)
    /\ scene_lower_upper = <<vec3(0), vec3(1)>>
    /\ leaf_indices = [tid \in 0 .. num_leaves - 1 |-> tid]
    /\ morton_codes \in SortedKeys(num_leaves)
    /\ bound_boxes = zeros(num_total_nodes, ZeroAabb)
    /\ parent_nodes = zeros(num_total_nodes, 0)
    /\ left_nodes = zeros(num_internal_nodes, 0)
    /\ right_nodes = zeros(num_internal_nodes, 0)
    /\ escape_indices = zeros(num_total_nodes, 0)
    /\ bvh_nodes = zeros(num_total_nodes, ZeroNode)
    /\ pc = "construct"
    /\ pending = 0 .. num_internal_nodes - 1
    /\ t_pc = zeros(num_leaves, "done")
    /\ t_current = zeros(num_leaves, 0)
    /\ t_parent = zeros(num_leaves, 0)
    /\ t_aabb = zeros(num_leaves, ZeroAabb)
    /\ box_writes = zeros(num_total_nodes, 0)
    /\ escape_writes = zeros(num_total_nodes, 0)
    /\ verify_errors = 0
    /\ call = "rebuild"
    /\ last_step = "none"
    /\ mutations = 0
    /\ var_int = <<>>
    /\ ret_min_int = <<>>
    /\ ret_max_int = <<>>
    /\ ret_sum_int = <<>>

\* A later rebuild() has sorted other keys into the key buffer.
TreeRekey ==
    /\ pc = "refit"
    /\ \E keys \in SortedKeys(num_leaves) :
         /\ keys # morton_codes
         /\ morton_codes' = keys
    /\ pc' = "construct"
    /\ pending' = 0 .. num_internal_nodes - 1
    /\ UNCHANGED <<inputs, flags, scene_lower_upper, leaf_indices, bound_boxes,
                   parent_nodes, left_nodes, right_nodes, escape_indices,
                   bvh_nodes, threads, verify_errors, call, last_step,
                   mutations, reduce_test>>

NextTree ==
    \/ TreeRekey
    \/ \E i \in 0 .. num_leaves - 2 : construct_binary_radix_tree_kernel(i)
    \/ fill_parent_nodes
    \/ verify_binary_radix_tree_kernel
    \/ \E tid \in 0 .. num_leaves - 1 : assign_escape_indices_kernel(tid)

SpecTree == InitTree /\ [][NextTree]_vars

\* ------------------------------------------------------- the constructor
\* SpecNew runs Bvh.__init__ on the arguments a caller can pass: two arrays
\* of any two lengths, each on one of the devices.  Before the object exists
\* no attribute is bound: the model holds 0 leaves and empty arrays.
Devices == {"cuda:0", "cuda:1", "cpu"}
is_cuda(d) == d # "cpu"
len(array) == Cardinality(DOMAIN array)

InitNew ==
    /\ \E nl \in 0 .. MaxLeaves : \E nu \in 0 .. MaxLeaves :
         \E boxes \in [0 .. Max(nl, nu) - 1 -> InitBoxes] :
            /\ lower_bounds = [i \in 0 .. nl - 1 |-> boxes[i][1]]
            /\ upper_bounds = [i \in 0 .. nu - 1 |-> boxes[i][2]]
    /\ device \in Devices \X Devices
    /\ num_leaves = 0
    /\ nan_quant = -1
    /\ flags = <<>>
    /\ scene_lower_upper = <<>>
    /\ leaf_indices = <<>>
    /\ morton_codes = <<>>
    /\ bound_boxes = <<>>
    /\ parent_nodes = <<>>
    /\ left_nodes = <<>>
    /\ right_nodes = <<>>
    /\ escape_indices = <<>>
    /\ bvh_nodes = <<>>
    /\ pc = "new"
    /\ pending = {}
    /\ t_pc = <<>>
    /\ t_current = <<>>
    /\ t_parent = <<>>
    /\ t_aabb = <<>>
    /\ box_writes = <<>>
    /\ escape_writes = <<>>
    /\ verify_errors = 0
    /\ call = "__init__"
    /\ last_step = "none"
    /\ mutations = 0
    /\ var_int = <<>>
    /\ ret_min_int = <<>>
    /\ ret_max_int = <<>>
    /\ ret_sum_int = <<>>

\* A faulty variant: the constructor accepts arrays on any one device.
InvalidArguments_no_cuda_check ==
    \/ len(lower_bounds) # len(upper_bounds)
    \/ device[1] # device[2]

\* The three tests the constructor opens with; each raises ValueError.
InvalidArguments ==
    \/ len(lower_bounds) # len(upper_bounds)
    \/ device[1] # device[2]
    \/ ~is_cuda(device[1])

\* raise ValueError(...): nothing has been bound or allocated.
Bvh_init_raise ==
    /\ pc = "new"
    /\ InvalidArguments
    /\ pc' = "raised"
    /\ last_step' = "ValueError"
    /\ UNCHANGED <<inputs, arrays, pending, threads, verify_errors, call,
                   mutations, reduce_test>>

\* The arguments pass: the counts are taken from lower_bounds, the buffers
\* are allocated zero-filled, and rebuild() is called.
Bvh_init ==
    /\ pc = "new"
    /\ ~InvalidArguments
    /\ num_leaves' = len(lower_bounds)
    /\ flags' = zeros(num_internal_nodes', 0)
    /\ scene_lower_upper' = <<vec3(0), vec3(0)>>
    /\ leaf_indices' = zeros(num_leaves', 0)
    /\ morton_codes' = zeros(num_leaves', 0)
    /\ bound_boxes' = zeros(num_total_nodes', ZeroAabb)
    /\ parent_nodes' = zeros(num_total_nodes', 0)
    /\ left_nodes' = zeros(num_internal_nodes', 0)
    /\ right_nodes' = zeros(num_internal_nodes', 0)
    /\ escape_indices' = zeros(num_total_nodes', 0)
    /\ bvh_nodes' = zeros(num_total_nodes', ZeroNode)
    /\ t_pc' = zeros(num_leaves', "done")
    /\ t_current' = zeros(num_leaves', 0)
    /\ t_parent' = zeros(num_leaves', 0)
    /\ t_aabb' = zeros(num_leaves', ZeroAabb)
    /\ box_writes' = zeros(num_total_nodes', 0)
    /\ escape_writes' = zeros(num_total_nodes', 0)
    /\ pc' = "rebuild"
    /\ call' = "rebuild"
    /\ UNCHANGED <<lower_bounds, upper_bounds, device, nan_quant, pending,
                   verify_errors, last_step, mutations, reduce_test>>

NextNew ==
    \/ Bvh_init_raise
    \/ Bvh_init

SpecNew == InitNew /\ [][NextNew]_vars

\* ------------------------------------------- the scene reducer on many leaves
\* SpecScene runs rebuild() up to the end of the scene kernel on hierarchies
\* of up to a few hundred leaves, so that the launch has fewer lanes than
\* there are leaves and the lanes stride.  All boxes are alike but two: one
\* holds the least lower corner, one the greatest upper corner.
SceneLeafCounts ==
    {1, 65, 128 * SmCount, 128 * SmCount + 1, 128 * SmCount + 70}
ScenePositions(n) ==
    {0, 31, 32, 64, scene_dim(n) - 1, scene_dim(n), n - 1} \cap (0 .. n - 1)

InitScene ==
    /\ num_leaves \in SceneLeafCounts
    /\ \E j \in ScenePositions(num_leaves) :
         LET h == num_leaves - 1 - j
             box(i) == IF i = j THEN << <<0, 0, 0>>, <<1, 1, 1>> >>
                       ELSE IF i = h THEN << <<10, 0, 5>>, <<11, 3, 5>> >>
                       ELSE << <<2, 2, 2>>, <<3, 3, 3>> >>
         IN /\ lower_bounds = [i \in 0 .. num_leaves - 1 |-> box(i)[1]]
            /\ upper_bounds = [i \in 0 .. num_leaves - 1 |-> box(i)[2]]
    /\ device = <<"cuda:0", "cuda:0">>
    /\ nan_quant = -1
    /\ flags = zeros(num_internal_nodes, 0)
    /\ scene_lower_upper = <<vec3(0), vec3(0)>>
    /\ leaf_indices = zeros(num_leaves, 0)
    /\ morton_codes = zeros(num_leaves, 0)
    /\ bound_boxes = zeros(num_total_nodes, ZeroAabb)
    /\ parent_nodes = zeros(num_total_nodes, 0)
    /\ left_nodes = zeros(num_internal_nodes, 0)
    /\ right_nodes = zeros(num_internal_nodes, 0)
    /\ escape_indices = zeros(num_total_nodes, 0)
    /\ bvh_nodes = zeros(num_total_nodes, ZeroNode)
    /\ pc = "rebuild"
    /\ pending = {}
    /\ t_pc = zeros(num_leaves, "done")
    /\ t_current = zeros(num_leaves, 0)
    /\ t_parent = zeros(num_leaves, 0)
    /\ t_aabb = zeros(num_leaves, ZeroAabb)
    /\ box_writes = zeros(num_total_nodes, 0)
    /\ escape_writes = zeros(num_total_nodes, 0)
    /\ verify_errors = 0
    /\ call = "rebuild"
    /\ last_step = "none"
    /\ mutations = 0
    /\ var_int = <<>>
    /\ ret_min_int = <<>>
    /\ ret_max_int = <<>>
    /\ ret_sum_int = <<>>

NextScene ==
    \/ init_leaf_indices_and_bounds_kernel
    \/ \E w \in SceneWarps : eval_scene_aabb_kernel(w)

SpecScene == InitScene /\ [][NextScene]_vars

\* ------------------------------------------------ Morton codes of chosen points
\* SpecMorton runs rebuild() up to the Morton kernel on three point boxes:
\* the corners (0,0,0) and (1024,1024,1024), which make the scene AABB, and
\* a point q with integer coordinates in [0, 1023], whose normalized centre
\* times 1024 is q itself.  q takes every 10-bit value on each axis, and
\* every triple of a few bit patterns.
QuantizedPatterns == {0, 1, 341, 512, 682, 1023}
MortonPoints ==
    {<<v, 0, 0>> : v \in 0 .. 1023} \cup {<<0, v, 0>> : v \in 0 .. 1023}
        \cup {<<0, 0, v>> : v \in 0 .. 1023}
        \cup (QuantizedPatterns \X QuantizedPatterns \X QuantizedPatterns)

InitMorton ==
    /\ num_leaves = 3
    /\ \E q \in MortonPoints :
         /\ lower_bounds = [i \in 0 .. 2 |->
                               IF i = 0 THEN vec3(0)
                               ELSE IF i = 1 THEN vec3(1024) ELSE q]
         /\ upper_bounds = lower_bounds
    /\ device = <<"cuda:0", "cuda:0">>
    /\ nan_quant = -1
    /\ flags = zeros(num_internal_nodes, 0)
    /\ scene_lower_upper = <<vec3(0), vec3(0)>>
    /\ leaf_indices = zeros(num_leaves, 0)
    /\ morton_codes = zeros(num_leaves, 0)
    /\ bound_boxes = zeros(num_total_nodes, ZeroAabb)
    /\ parent_nodes = zeros(num_total_nodes, 0)
    /\ left_nodes = zeros(num_internal_nodes, 0)
    /\ right_nodes = zeros(num_internal_nodes, 0)
    /\ escape_indices = zeros(num_total_nodes, 0)
    /\ bvh_nodes = zeros(num_total_nodes, ZeroNode)
    /\ pc = "rebuild"
    /\ pending = {}
    /\ t_pc = zeros(num_leaves, "done")
    /\ t_current = zeros(num_leaves, 0)
    /\ t_parent = zeros(num_leaves, 0)
    /\ t_aabb = zeros(num_leaves, ZeroAabb)
    /\ box_writes = zeros(num_total_nodes, 0)
    /\ escape_writes = zeros(num_total_nodes, 0)
    /\ verify_errors = 0
    /\ call = "rebuild"
    /\ last_step = "none"
    /\ mutations = 0
    /\ var_int = <<>>
    /\ ret_min_int = <<>>
    /\ ret_max_int = <<>>
    /\ ret_sum_int = <<>>

NextMorton ==
    \/ init_leaf_indices_and_bounds_kernel
    \/ \E w \in SceneWarps : eval_scene_aabb_kernel(w)
    \/ assign_morton_codes_kernel

SpecMorton == InitMorton /\ [][NextMorton]_vars

\* ------------------------------------------------------------------ claims
\* rebuild() or refit() has returned and the inputs are as they were then.
Returned == pc = "idle" /\ last_step \in {"rebuild", "refit"}

InternalNodes == 0 .. num_leaves - 2
Nodes == 0 .. 2 * num_leaves - 2
LeafPositions == 0 .. num_leaves - 1

\* The least and the greatest element of a non-empty set of integers.
Least(S) == CHOOSE m \in S : \A x \in S : m <= x
Greatest(S) == CHOOSE m \in S : \A x \in S : m >= x

\* C1: after rebuild() or refit() returns for N >= 2, whatever the order in
\* which the refit threads ran, the box of every internal node is the
\* component-wise min of its two children's lowers and max of their uppers.
C1_InternalBoxIsMergeOfChildren ==
    (Returned /\ num_leaves >= 2) =>
        \A i \in InternalNodes : \A k \in 1 .. 3 :
            LET l == bound_boxes[left_nodes[i]]
                r == bound_boxes[right_nodes[i]]
            IN /\ bound_boxes[i].lower[k] = Least({l.lower[k], r.lower[k]})
               /\ bound_boxes[i].upper[k] = Greatest({l.upper[k], r.upper[k]})

\* A refit of three or more leaves has returned after a mutation, and the
\* root's box is strictly larger than each of its children's boxes.
C1_Witness ==
    /\ Returned /\ last_step = "refit" /\ mutations >= 1 /\ num_leaves >= 3
    /\ bound_boxes[0] # bound_boxes[left_nodes[0]]
    /\ bound_boxes[0] # bound_boxes[right_nodes[0]]

\* C2: on return of rebuild() or refit(), after any mutations of the inputs,
\* the root's box is the component-wise min of lower[i] and max of upper[i]
\* over all current input leaves (N >= 1).
C2_RootBoxIsInputBounds ==
    (Returned /\ num_leaves >= 1) =>
        \A k \in 1 .. 3 :
            /\ bound_boxes[0].lower[k] =
                 Least({lower_bounds[i][k] : i \in LeafPositions})
            /\ bound_boxes[0].upper[k] =
                 Greatest({upper_bounds[i][k] : i \in LeafPositions})

\* A refit has returned after a mutation that moved the input bounds, so
\* that the root's box is no longer the scene AABB of the last rebuild.
C2_Witness ==
    /\ Returned /\ last_step = "refit" /\ mutations >= 1 /\ num_leaves >= 2
    /\ bound_boxes[0].upper # scene_lower_upper[2]

\* C6: on return of rebuild() or refit(), the box of the leaf at sorted
\* position k, node N-1+k, is the current input AABB of leaf leaf_perm[k].
C6_LeafBoxIsInputBox ==
    (Returned /\ num_leaves >= 1) =>
        \A k \in LeafPositions :
            /\ bound_boxes[num_leaves - 1 + k].lower = lower_bounds[leaf_indices[k]]
            /\ bound_boxes[num_leaves - 1 + k].upper = upper_bounds[leaf_indices[k]]

\* A refit has returned after a mutation, with a leaf order that is not the
\* input order, and the mutated leaf is not at its own position.
C6_Witness ==
    /\ Returned /\ last_step = "refit" /\ mutations >= 1 /\ num_leaves >= 2
    /\ \E k \in LeafPositions :
         /\ leaf_indices[k] # k
         /\ lower_bounds[leaf_indices[k]] = <<10, 0, 5>>

\* The tree kernel has completed and no later one is running.
TreeBuilt == pc \in {"verify", "escape", "refit", "boxes", "idle"}
\* The verification and escape kernels have completed as well.
EscapesBuilt == pc \in {"refit", "boxes", "idle"}

\* C3: after every build with N >= 1, for every non-decreasing key sequence:
\* parent[0] = -1; every other node has a parent in [0, N-1) that names it as
\* its left or right child; every internal node has its children in
\* [1, 2N-1) and is the parent of both; and the verification kernel prints
\* no error.
C3_TreeIsConsistent ==
    (TreeBuilt /\ num_leaves >= 1) =>
        /\ parent_nodes[0] = -1
        /\ \A v \in Nodes \ {0} :
             /\ parent_nodes[v] \in InternalNodes
             /\ v \in {left_nodes[parent_nodes[v]], right_nodes[parent_nodes[v]]}
        /\ \A i \in InternalNodes :
             /\ left_nodes[i] \in Nodes \ {0}
             /\ right_nodes[i] \in Nodes \ {0}
             /\ parent_nodes[left_nodes[i]] = i
             /\ parent_nodes[right_nodes[i]] = i
        /\ (pc # "verify" => verify_errors = 0)

\* A tree of four or more leaves, some keys equal and some not, whose root
\* has two internal children, has been built and verified.
C3_Witness ==
    /\ pc = "refit" /\ num_leaves >= 4
    /\ \E k \in 0 .. num_leaves - 2 : morton_codes[k] = morton_codes[k + 1]
    /\ \E k \in 0 .. num_leaves - 2 : morton_codes[k] # morton_codes[k + 1]
    /\ bound_boxes = zeros(num_total_nodes, ZeroAabb)
    /\ left_nodes[0] < num_leaves - 1 /\ right_nodes[0] < num_leaves - 1

\* The sorted positions of the leaves below node v, following the child
\* links for at most fuel levels.
RECURSIVE LeavesBelow(_, _)
LeavesBelow(v, fuel) ==
    IF v >= num_leaves - 1 THEN {v - (num_leaves - 1)}
    ELSE IF fuel = 0 \/ v < 0 THEN {}
    ELSE LeavesBelow(left_nodes[v], fuel - 1)
         \cup LeavesBelow(right_nodes[v], fuel - 1)

\* The number of downward paths from node v to a leaf, within fuel levels.
RECURSIVE PathsBelow(_, _)
PathsBelow(v, fuel) ==
    IF v >= num_leaves - 1 THEN 1
    ELSE IF fuel = 0 \/ v < 0 THEN 0
    ELSE PathsBelow(left_nodes[v], fuel - 1) + PathsBelow(right_nodes[v], fuel - 1)

\* C4: for N >= 2 the leaves below internal node i are exactly the sorted
\* positions [first, last] of determine_range, of which i is one end; the
\* left subtree covers [first, s] and the right one [s+1, last] for
\* s = find_split(first, last); node 0 covers [0, N-1] and every leaf is
\* reached from the root by exactly one path.
C4_SubtreesCoverRanges ==
    (TreeBuilt /\ num_leaves >= 2) =>
        /\ \A i \in InternalNodes :
             LET range == determine_range(morton_codes, i, num_leaves)
                 first == range[1]
                 last == range[2]
                 s == find_split(morton_codes, first, last)
             IN /\ i \in {first, last}
                /\ LeavesBelow(i, num_leaves) = first .. last
                /\ LeavesBelow(left_nodes[i], num_leaves) = first .. s
                /\ LeavesBelow(right_nodes[i], num_leaves) = (s + 1) .. last
        /\ LeavesBelow(0, num_leaves) = LeafPositions
        /\ PathsBelow(0, num_leaves) = num_leaves

\* A tree has been built in which an internal node is the upper end of its
\* range and another, not the root, the lower end of a range of three or
\* more leaves.
C4_Witness ==
    /\ TreeBuilt /\ num_leaves >= 4
    /\ \E i \in InternalNodes :
         determine_range(morton_codes, i, num_leaves)[2] = i
    /\ \E i \in InternalNodes \ {0} :
         LET range == determine_range(morton_codes, i, num_leaves)
         IN range[1] = i /\ range[2] >= i + 2

\* The nearest ancestor of v, v included, that is a left child; -1 if the
\* walk reaches the root (within fuel steps).
RECURSIVE NearestLeftChild(_, _)
NearestLeftChild(v, fuel) ==
    IF fuel = 0 \/ v <= 0 \/ parent_nodes[v] < 0 THEN -1
    ELSE IF left_nodes[parent_nodes[v]] = v THEN v
    ELSE NearestLeftChild(parent_nodes[v], fuel - 1)

\* C8: after a build, escape[v] is the right sibling of the nearest
\* ancestor-or-self of v that is a left child, and -1 exactly when there is
\* none: v is the root or on the root's right spine.
C8_EscapeIsRightSiblingOfLeftAncestor ==
    (EscapesBuilt /\ num_leaves >= 1) =>
        \A v \in Nodes :
            LET a == NearestLeftChild(v, num_leaves)
            IN /\ a # -1 => escape_indices[v] = right_nodes[parent_nodes[a]]
               /\ (escape_indices[v] = -1) <=> (a = -1)

\* The escapes are built for a tree in which a leaf's escape is the right
\* sibling of an ancestor two levels up.
C8_Witness ==
    /\ EscapesBuilt /\ num_leaves >= 4
    /\ \E v \in Nodes :
         /\ v >= num_leaves - 1
         /\ escape_indices[v] # -1
         /\ right_nodes[parent_nodes[v]] = v
         /\ right_nodes[parent_nodes[parent_nodes[v]]] = parent_nodes[v]

\* The nodes the stackless traversal visits from node t on, in order: it
\* moves to the link of an internal record and to the escape of a leaf
\* record, and stops at -1. A walk that leaves the records or outlasts fuel
\* steps ends in -2.
RECURSIVE Traversal(_, _)
Traversal(t, fuel) ==
    IF t = -1 THEN <<>>
    ELSE IF fuel = 0 \/ t \notin DOMAIN bvh_nodes THEN <<-2>>
    ELSE LET link == bvh_nodes[t].left_or_leaf
             next == IF link >= 0 THEN link ELSE bvh_nodes[t].escape_index
         IN <<t>> \o Traversal(next, fuel - 1)

\* C5: after a call returns with N >= 1, the stackless traversal from node 0
\* visits each of the 2N-1 nodes exactly once and then reaches -1.
C5_TraversalVisitsEveryNodeOnce ==
    (Returned /\ num_leaves >= 1) =>
        LET order == Traversal(0, 2 * num_leaves)
        IN /\ Len(order) = 2 * num_leaves - 1
           /\ {order[k] : k \in 1 .. Len(order)} = Nodes

\* A call has returned with three leaves, a leaf record whose escape leads
\* two levels up, and the traversal ending on a leaf of the root.
C5_Witness ==
    /\ Returned /\ num_leaves = 3
    /\ \E t \in Nodes :
         /\ bvh_nodes[t].left_or_leaf < 0
         /\ parent_nodes[t] # 0
         /\ bvh_nodes[t].escape_index = right_nodes[0]
    /\ Traversal(0, 6)[5] = right_nodes[0]

\* C9: after any rebuild() or refit() returns, record t holds box[t],
\* escape[t], and as its link left[t] for t < N-1 and
\* -(leaf_perm[t-(N-1)]) - 1 otherwise.
C9_RecordsMatchNodeArrays ==
    Returned =>
        /\ DOMAIN bvh_nodes = Nodes
        /\ \A t \in Nodes :
             /\ bvh_nodes[t].aabb = bound_boxes[t]
             /\ bvh_nodes[t].escape_index = escape_indices[t]
             /\ bvh_nodes[t].left_or_leaf =
                  IF t < num_leaves - 1 THEN left_nodes[t]
                  ELSE -(leaf_indices[t - (num_leaves - 1)]) - 1

\* refit() has returned after a mutation that the root record's box shows.
C9_Witness ==
    /\ Returned /\ last_step = "refit" /\ mutations = 1
    /\ num_leaves >= 2
    /\ bvh_nodes[0].aabb.upper[1] = 11

\* C10: after a call returns with N >= 1, the link of record t is >= 0
\* exactly when t < N-1; decoding -link-1 over the leaf records gives every
\* leaf index in [0, N) exactly once; and leaf_perm is a permutation of
\* [0, N).
C10_LinkSignAndLeafPermutation ==
    (Returned /\ num_leaves >= 1) =>
        /\ \A t \in Nodes : (bvh_nodes[t].left_or_leaf >= 0) <=> (t < num_leaves - 1)
        /\ \A j \in LeafPositions :
             Cardinality({k \in LeafPositions :
                 -bvh_nodes[num_leaves - 1 + k].left_or_leaf - 1 = j}) = 1
        /\ \A j \in LeafPositions :
             Cardinality({k \in LeafPositions : leaf_indices[k] = j}) = 1

\* A call has returned with three leaves in an order the sort has changed.
C10_Witness ==
    /\ Returned /\ num_leaves = 3
    /\ \E k \in LeafPositions : leaf_indices[k] # k
    /\ -bvh_nodes[num_leaves - 1].left_or_leaf - 1 # 0

\* ------------------------------------------------- a build from scratch
\* What rebuild() computes from the current inputs, kernel after kernel, as
\* functions of lower_bounds and upper_bounds (num_leaves >= 1).
\* The scene AABB: the merge of every leaf box.
FreshScene ==
    <<[k \in 1 .. 3 |-> Least({lower_bounds[i][k] : i \in LeafPositions})],
      [k \in 1 .. 3 |-> Greatest({upper_bounds[i][k] : i \in LeafPositions})]>>
\* The quantized NaN such a build may meet: the build's own once known,
\* either value before, and of no effect if no NaN arises.
FreshNans ==
    IF nan_quant # -1 THEN {nan_quant}
    ELSE IF NanArises(FreshScene) THEN {0, 1023} ELSE {0}
\* An array as the device holds it: every element computed once.
RECURSIVE Stored(_, _)
Stored(array, n) ==
    IF n = 0 THEN <<>>
    ELSE IF n = 1 THEN (0 :> array[0])
    ELSE Stored(array, n - 1) @@ ((n - 1) :> array[n - 1])
\* The Morton code of each leaf, before the sort.
FreshCodes(nan) ==
    Stored([tid \in LeafPositions |-> leaf_morton_code(FreshScene, tid, nan)],
           num_leaves)
\* The box of node v after the refit at the end of the build, given the
\* build's leaf_perm and child links.
RECURSIVE FreshBox(_, _, _, _)
FreshBox(perm, children, v, fuel) ==
    IF v >= num_leaves - 1
    THEN LET leaf == perm[v - (num_leaves - 1)]
         IN make_aabb(lower_bounds[leaf], upper_bounds[leaf])
    ELSE IF fuel = 0 THEN ZeroAabb
    ELSE aabb_merge(FreshBox(perm, children, children[v][1], fuel - 1),
                    FreshBox(perm, children, children[v][2], fuel - 1))
\* leaf_perm, the child links and the boxes the build ends with.
FreshBuild(nan) ==
    LET codes == FreshCodes(nan)
        perm == Stored(sorted_values(codes, [tid \in LeafPositions |-> tid]),
                       num_leaves)
        keys == Stored(sorted_keys(codes), num_leaves)
        children == Stored([i \in InternalNodes |->
                               node_children(keys, i, num_leaves)],
                           num_leaves - 1)
    IN [leaf_indices |-> perm,
        children |-> children,
        bound_boxes |-> [v \in Nodes |-> FreshBox(perm, children, v, num_leaves)]]
\* A build from scratch orders the leaves and links the nodes as the
\* resident hierarchy does.
FreshTreeIsResident(fresh) ==
    /\ fresh.leaf_indices = leaf_indices
    /\ \A i \in InternalNodes :
         fresh.children[i] = <<left_nodes[i], right_nodes[i]>>

\* C7 as stated: after a build, a mutation of the input boxes and refit(),
\* box[] equals the box[] of a fresh build on the mutated inputs.
C7_RefitEqualsFreshBuild ==
    (Returned /\ last_step = "refit" /\ num_leaves >= 1) =>
        \E nan \in FreshNans : bound_boxes = FreshBuild(nan).bound_boxes

\* C7, amended: when a call returns with N >= 1, box[0] equals the root box
\* of a fresh build on the current inputs; box[] as a whole equals that of
\* the fresh build whenever the fresh build orders the leaves and links the
\* nodes as the resident hierarchy does, which is always so after rebuild()
\* and need not be so after refit().
C7_RefitEqualsFreshBuildOfSameTree ==
    (Returned /\ num_leaves >= 1) =>
        \A nan \in FreshNans :
            LET fresh == FreshBuild(nan)
            IN /\ bound_boxes[0] = fresh.bound_boxes[0]
               /\ FreshTreeIsResident(fresh) => bound_boxes = fresh.bound_boxes
               /\ last_step = "rebuild" => FreshTreeIsResident(fresh)

\* refit() has returned after a mutation that moved a leaf box, on a
\* hierarchy of three leaves that a fresh build would order and link alike.
C7_Witness ==
    /\ Returned /\ last_step = "refit" /\ mutations = 1
    /\ num_leaves = 3
    /\ \E i \in LeafPositions : upper_bounds[i][1] = 11
    /\ \A nan \in FreshNans : FreshTreeIsResident(FreshBuild(nan))
    /\ bound_boxes[0].upper[1] = 11

\* The sorted position node v is named after: the split position of an
\* internal node's index, the leaf position of a leaf's.
SplitPosition(v) == IF v >= num_leaves - 1 THEN v - (num_leaves - 1) ELSE v

\* C11 as stated: for every internal node t of a built hierarchy the right
\* child is at node index left[t] + 1.
C11_RightChildIsLinkPlusOne ==
    (TreeBuilt /\ num_leaves >= 2) =>
        \A t \in InternalNodes : right_nodes[t] = left_nodes[t] + 1

\* C11, amended: for every internal node t of a built hierarchy the right
\* child follows the left one in sorted position, not in node index:
\* right[t] = left[t] + 1 exactly when the two children are both internal
\* or both leaves, right[t] = left[t] + N when only the right child is a
\* leaf, and right[t] = left[t] - (N-2) when only the left child is a leaf.
C11_RightChildFollowsLeftInSortedOrder ==
    (TreeBuilt /\ num_leaves >= 2) =>
        \A t \in InternalNodes :
            LET left == left_nodes[t]
                right == right_nodes[t]
                left_is_leaf == left >= num_leaves - 1
                right_is_leaf == right >= num_leaves - 1
            IN /\ SplitPosition(right) = SplitPosition(left) + 1
               /\ (right = left + 1) <=> (left_is_leaf <=> right_is_leaf)
               /\ (~left_is_leaf /\ right_is_leaf) => right = left + num_leaves
               /\ (left_is_leaf /\ ~right_is_leaf) => right = left - (num_leaves - 2)

\* A tree of four leaves has been built with a node whose left child alone
\* is a leaf, a node whose right child alone is a leaf, and a node of two
\* leaves.
C11_Witness ==
    /\ TreeBuilt /\ num_leaves = 4
    /\ \E t \in InternalNodes :
         left_nodes[t] >= num_leaves - 1 /\ right_nodes[t] < num_leaves - 1
    /\ \E t \in InternalNodes :
         left_nodes[t] < num_leaves - 1 /\ right_nodes[t] >= num_leaves - 1
    /\ \E t \in InternalNodes :
         left_nodes[t] >= num_leaves - 1 /\ right_nodes[t] >= num_leaves - 1

\* C12: for every internal node t of a built hierarchy,
\* escape[left[t]] = right[t].
C12_EscapeOfLeftChildIsRightChild ==
    (EscapesBuilt /\ num_leaves >= 2) =>
        \A t \in InternalNodes : escape_indices[left_nodes[t]] = right_nodes[t]

\* The escapes are built for a tree of four leaves, over the escapes of an
\* earlier tree, with an internal left child whose right sibling is not at
\* the next node index.
C12_Witness ==
    /\ EscapesBuilt /\ num_leaves = 4
    /\ \E t \in InternalNodes :
         /\ left_nodes[t] < num_leaves - 1
         /\ right_nodes[t] # left_nodes[t] + 1
         /\ escape_indices[left_nodes[t]] = right_nodes[t]

\* C13: after every rebuild(), the first build and a rebuild of a built
\* hierarchy alike, keys[0..N) is non-decreasing and keys[k] is the 30-bit
\* Morton code of the center of original leaf leaf_perm[k], normalized in
\* the scene box of the current inputs.
C13_KeysSortedAlongLeafPerm ==
    (Returned /\ last_step = "rebuild" /\ num_leaves >= 1) =>
        /\ \A k \in 0 .. num_leaves - 2 : morton_codes[k] <= morton_codes[k + 1]
        /\ \A k \in LeafPositions :
             /\ morton_codes[k] \in 0 .. 1073741823
             /\ \A nan \in FreshNans :
                  morton_codes[k] = leaf_morton_code(FreshScene, leaf_indices[k], nan)

\* rebuild() has returned on a built hierarchy of three leaves whose inputs
\* were mutated, with keys that differ and a leaf order the sort changed.
C13_Witness ==
    /\ Returned /\ last_step = "rebuild" /\ mutations = 1
    /\ num_leaves = 3
    /\ morton_codes[0] < morton_codes[2]
    /\ \E k \in LeafPositions : leaf_indices[k] # k

\* ------------------------------------------ the topology of a key sequence
\* The arrays the tree and escape kernels leave, computed from the sorted
\* keys alone with the threads run one after another in index order on
\* zero-filled buffers.
KeyChildren(codes, n) ==
    Stored([i \in 0 .. n - 2 |-> node_children(codes, i, n)], n - 1)
\* The internal node that names v as a child; -1 for node 0.
KeyParent(children, v) ==
    IF v = 0 THEN -1
    ELSE IF \E i \in DOMAIN children : v \in {children[i][1], children[i][2]}
         THEN CHOOSE i \in DOMAIN children : v \in {children[i][1], children[i][2]}
         ELSE 0
\* The walk of one escape thread over the children of the key sequence.
RECURSIVE KeyEscapeWalk(_, _, _, _)
KeyEscapeWalk(children, escape, current_index, escape_index) ==
    IF current_index \in DOMAIN children
    THEN LET next == children[current_index][2]
         IN KeyEscapeWalk(children, [escape EXCEPT ![next] = escape_index],
                          next, escape_index)
    ELSE escape
\* The escapes after threads 0 .. tid of the escape kernel, in that order.
RECURSIVE KeyEscapes(_, _, _)
KeyEscapes(children, n, tid) ==
    IF tid < 0 THEN zeros(2 * n - 1, 0)
    ELSE LET before == KeyEscapes(children, n, tid - 1)
             current_index == IF tid < n - 1 THEN children[tid][1] ELSE 0
             escape_index == IF tid < n - 1 THEN children[tid][2] ELSE -1
         IN KeyEscapeWalk(children,
                          [before EXCEPT ![current_index] = escape_index],
                          current_index, escape_index)
KeyTopology(codes, n) ==
    LET children == KeyChildren(codes, n)
    IN [left_nodes |-> [i \in 0 .. n - 2 |-> children[i][1]],
        right_nodes |-> [i \in 0 .. n - 2 |-> children[i][2]],
        parent_nodes |-> [v \in 0 .. 2 * n - 2 |-> KeyParent(children, v)],
        escape_indices |-> KeyEscapes(children, n, n - 1)]

\* C14: when the escape kernel has run and between calls, the parent, left,
\* right and escape arrays are those of the sorted key sequence alone, so two builds with equal sorted
\* keys have identical arrays whatever leaf_perm, the boxes, the previous
\* content of the buffers and the order of the kernels' threads are.
C14_TopologyIsFunctionOfKeys ==
    (pc \in {"refit", "idle"} /\ num_leaves >= 1) =>
        LET topology == KeyTopology(morton_codes, num_leaves)
        IN /\ left_nodes = topology.left_nodes
           /\ right_nodes = topology.right_nodes
           /\ parent_nodes = topology.parent_nodes
           /\ escape_indices = topology.escape_indices

\* A rebuild of a built hierarchy has returned with three leaves, equal
\* keys among them, and a leaf order that is not the identity.
C14_Witness ==
    /\ Returned /\ last_step = "rebuild" /\ mutations = 1
    /\ num_leaves = 3
    /\ \E k \in 0 .. 1 : morton_codes[k] = morton_codes[k + 1]
    /\ morton_codes[0] # morton_codes[2]
    /\ leaf_indices # [k \in LeafPositions |-> k]

\* Every sorted key is the same.
AllKeysEqual == \A k \in LeafPositions : morton_codes[k] = morton_codes[0]

\* The number of ancestors of node v (within fuel steps).
RECURSIVE Depth(_, _)
Depth(v, fuel) ==
    IF fuel = 0 \/ v \notin DOMAIN parent_nodes THEN 0
    ELSE IF parent_nodes[v] = -1 THEN 0
    ELSE 1 + Depth(parent_nodes[v], fuel - 1)
\* The steps thread tid of the refit kernel can still take: one per store
\* and one per atomic on the way from its node to the root.
ThreadStepsLeft(tid) ==
    CASE t_pc[tid] = "start" -> 2 * Depth(num_leaves - 1 + tid, num_leaves) + 1
      [] t_pc[tid] = "loop" -> 2 * Depth(t_current[tid], num_leaves)
      [] t_pc[tid] = "merge" -> 2 * Depth(t_current[tid], num_leaves) - 1
      [] OTHER -> 0
RECURSIVE SumStepsLeft(_)
SumStepsLeft(tid) ==
    IF tid < 0 THEN 0 ELSE ThreadStepsLeft(tid) + SumStepsLeft(tid - 1)
\* The kernels a call has still to launch once its keys are sorted, and the
\* steps the running kernel's threads can still take.
PhasesLeft ==
    CASE pc = "construct" -> 5
      [] pc = "verify" -> 4
      [] pc = "escape" -> 3
      [] pc = "refit" -> 2
      [] pc = "boxes" -> 1
      [] OTHER -> 0
StepsLeft ==
    CASE pc \in {"construct", "escape"} -> Cardinality(pending)
      [] pc = "boxes" -> SumStepsLeft(num_leaves - 1)
      [] OTHER -> 0
\* A thread or a host step of the running phase can be taken.
CanStep ==
    CASE pc = "construct" ->
           IF num_leaves > 1 THEN pending # {} /\ pending \subseteq InternalNodes
           ELSE TRUE
      [] pc = "escape" -> pending # {} /\ pending \subseteq LeafPositions
      [] pc = "boxes" -> \A tid \in LeafPositions :
                             t_pc[tid] \in {"start", "loop", "merge", "done"}
      [] OTHER -> TRUE
\* A build of two or more leaves, all keys equal, is past its sort.
EqualKeysBuildRuns ==
    /\ call = "rebuild" /\ num_leaves >= 2 /\ AllKeysEqual
    /\ pc \in {"construct", "verify", "escape", "refit", "boxes"}

\* C15: a build of N >= 2 leaves whose Morton keys are all equal
\* terminates (each of its states past the sort has a step to take, and
\* every step brings the number of kernels left, or at the same kernel the
\* number of thread steps left, down), and when it has returned the parents
\* and children are consistent, every internal box is the merge of its
\* children's, every leaf box is its input box, and the escape traversal
\* visits all 2N-1 nodes exactly once.
C15_EqualKeysBuildIsWellFormed ==
    /\ [](EqualKeysBuildRuns => CanStep)
    /\ [][EqualKeysBuildRuns =>
             \/ PhasesLeft' < PhasesLeft
             \/ PhasesLeft' = PhasesLeft /\ StepsLeft' < StepsLeft]_vars
    /\ []((Returned /\ last_step = "rebuild" /\ num_leaves >= 2 /\ AllKeysEqual) =>
             /\ parent_nodes[0] = -1
             /\ verify_errors = 0
             /\ \A v \in Nodes \ {0} :
                  /\ parent_nodes[v] \in InternalNodes
                  /\ v \in {left_nodes[parent_nodes[v]], right_nodes[parent_nodes[v]]}
             /\ \A i \in InternalNodes :
                  /\ {left_nodes[i], right_nodes[i]} \subseteq Nodes \ {0}
                  /\ parent_nodes[left_nodes[i]] = i
                  /\ parent_nodes[right_nodes[i]] = i
                  /\ bound_boxes[i] = aabb_merge(bound_boxes[left_nodes[i]],
                                                 bound_boxes[right_nodes[i]])
             /\ \A k \in LeafPositions :
                  bound_boxes[num_leaves - 1 + k] =
                      make_aabb(lower_bounds[leaf_indices[k]],
                                upper_bounds[leaf_indices[k]])
             /\ LET order == Traversal(0, 2 * num_leaves)
                IN /\ Len(order) = 2 * num_leaves - 1
                   /\ \A v \in Nodes : \E k \in 1 .. Len(order) : order[k] = v)

\* A build of three leaves with all keys equal has returned: the ties were
\* broken by position, the root has an internal child and a leaf child.
C15_Witness ==
    /\ Returned /\ last_step = "rebuild"
    /\ num_leaves = 3 /\ AllKeysEqual
    /\ \E c \in {left_nodes[0], right_nodes[0]} : c \in InternalNodes
    /\ \E c \in {left_nodes[0], right_nodes[0]} : c \notin InternalNodes

\* C16: on return of rebuild() or refit() with N = 1 there is no internal
\* node and one node in all, the leaf at node 0: its parent and its escape
\* are -1, its box is the input AABB, and its record holds that box, the
\* link -1 (leaf 0 encoded as -0-1) and the escape -1. The parent is -1
\* from the step that stands in for the tree kernel on.
C16_SingleLeafTree ==
    /\ (TreeBuilt /\ num_leaves = 1) => parent_nodes[0] = -1
    /\ (Returned /\ num_leaves = 1) =>
        /\ num_internal_nodes = 0
        /\ DOMAIN left_nodes = {} /\ DOMAIN right_nodes = {} /\ DOMAIN flags = {}
        /\ DOMAIN parent_nodes = {0} /\ DOMAIN bvh_nodes = {0}
        /\ leaf_indices[0] = 0
        /\ parent_nodes[0] = -1
        /\ escape_indices[0] = -1
        /\ bound_boxes[0] = make_aabb(lower_bounds[0], upper_bounds[0])
        /\ bvh_nodes[0] = [aabb |-> make_aabb(lower_bounds[0], upper_bounds[0]),
                           left_or_leaf |-> -1, escape_index |-> -1]
        /\ verify_errors = 0

\* A one-leaf hierarchy has been refitted after its only box was changed.
C16_Witness ==
    /\ Returned /\ last_step = "refit" /\ num_leaves = 1 /\ mutations >= 1
    /\ bvh_nodes[0].aabb # ZeroAabb

\* C17: with N = 0, rebuild() and refit() return from their entry without
\* a kernel or the sort having run (the call is never inside a launch), and
\* no step of theirs changes a buffer: every array keeps its length 0 and
\* the scene AABB keeps the zeros it was allocated with.
C17_EmptyCallsAreNoOps ==
    /\ [](num_leaves = 0 =>
            /\ pc \in {"rebuild", "refit", "idle"}
            /\ pending = {}
            /\ scene_lower_upper = <<vec3(0), vec3(0)>>
            /\ \A a \in {flags, leaf_indices, morton_codes, parent_nodes,
                          left_nodes, right_nodes, escape_indices} :
                 DOMAIN a = {}
            /\ DOMAIN bound_boxes = {} /\ DOMAIN bvh_nodes = {})
    /\ [][num_leaves = 0 =>
             /\ UNCHANGED <<arrays, pending, threads, verify_errors>>
             /\ pc \in {"rebuild", "refit"} => pc' = "idle"]_vars

\* Both calls have returned on an empty hierarchy: the constructor's
\* rebuild(), then a refit().
C17_Witness ==
    /\ num_leaves = 0 /\ Returned /\ last_step = "refit"

\* No attribute of the object is bound and no buffer exists.
Unallocated ==
    /\ num_leaves = 0
    /\ arrays = <<<<>>, <<>>, <<>>, <<>>, <<>>, <<>>, <<>>, <<>>, <<>>, <<>>>>
    /\ threads = <<<<>>, <<>>, <<>>, <<>>, <<>>, <<>>>>

\* C18: constructing a Bvh from arrays of different lengths, on different
\* devices, or on a device that is not a GPU raises the argument error
\* (ValueError) as the constructor's only step: no buffer is allocated, no
\* kernel is launched, and the object never holds a hierarchy.
C18_BadArgumentsAreRejected ==
    /\ []((\/ len(lower_bounds) # len(upper_bounds)
           \/ device[1] # device[2]
           \/ device[1] = "cpu" \/ device[2] = "cpu") =>
              /\ pc \in {"new", "raised"}
              /\ Unallocated
              /\ pending = {}
              /\ pc = "raised" => last_step = "ValueError")
    /\ [][(/\ pc = "new"
           /\ \/ len(lower_bounds) # len(upper_bounds)
              \/ device[1] # device[2]
              \/ device[1] = "cpu" \/ device[2] = "cpu") =>
              /\ pc' = "raised"
              /\ UNCHANGED <<inputs, arrays, threads, pending>>]_vars
    /\ [][pc = "raised" => UNCHANGED vars]_vars

\* The last of the three tests has raised: two arrays of two boxes each,
\* both on the CPU.
C18_Witness ==
    /\ pc = "raised" /\ last_step = "ValueError"
    /\ len(lower_bounds) = 2 /\ len(upper_bounds) = 2
    /\ device = <<"cpu", "cpu">>

\* C20: no step of rebuild() or refit(), from the entry of the call to its
\* return, changes the caller's lower_bounds or upper_bounds: the arrays
\* hold what the caller last stored.
C20_InputsAreReadOnly ==
    [][(pc # "idle" \/ pc' # "idle") =>
          UNCHANGED <<lower_bounds, upper_bounds>>]_vars

\* A rebuild has returned on three leaves after the caller overwrote a box:
\* the sorted order is not the input order, and the box the caller stored
\* is in the input arrays.
C20_Witness ==
    /\ Returned /\ last_step = "rebuild" /\ mutations >= 1 /\ num_leaves = 3
    /\ \E k \in LeafPositions : leaf_indices[k] # k
    /\ \E i \in LeafPositions :
         /\ lower_bounds[i] = <<10, 0, 5>>
         /\ upper_bounds[i] = <<11, 3, 5>>

\* C21: no step of refit(), from its entry to its return, changes parent,
\* left, right, escape, leaf_perm, the keys or the stored scene AABB, also
\* after the inputs were mutated; it writes flags, box[] and record[] only.
C21_RefitKeepsTopologyAndKeys ==
    [][(pc \in {"refit", "boxes"} \/ (pc = "idle" /\ pc' = "refit")) =>
          UNCHANGED <<parent_nodes, left_nodes, right_nodes, escape_indices,
                      leaf_indices, morton_codes, scene_lower_upper>>]_vars

\* A refit of three leaves has returned after a mutation that moved the
\* root's box: the flags, the boxes and the records are rewritten, and the
\* stored scene AABB is still that of the build.
C21_Witness ==
    /\ Returned /\ last_step = "refit" /\ mutations >= 1 /\ num_leaves = 3
    /\ \A p \in InternalNodes : flags[p] = 2
    /\ bvh_nodes[0].aabb = bound_boxes[0]
    /\ bound_boxes[0] # make_aabb(scene_lower_upper[1], scene_lower_upper[2])

\* The scene kernel has been launched and none of its warps has committed.
SceneLaunched == pc = "scene" /\ pending = SceneWarps
\* Every warp of the scene kernel has committed.
SceneReduced == pc = "morton"

\* C22: for N >= 1 the scene kernel, launched with a multiple of the warp
\* size of lanes, leaves scene_lower = min_i lower[i] and scene_upper =
\* max_i upper[i] whatever the order in which its warps commit; every index
\* in [0, N) is read by exactly one lane, the lane tid reading tid, tid + W,
\* ... in turn, and a lane that reads no index contributes (+inf, -inf).
C22_SceneBoundsAreInputBounds ==
    /\ (pc = "scene" /\ num_leaves >= 1) =>
          /\ SceneLanes > 0 /\ SceneLanes % WarpSize = 0
          /\ \A k \in 1 .. 3 :
               /\ scene_lower_upper[1][k] >=
                    Least({lower_bounds[i][k] : i \in LeafPositions})
               /\ scene_lower_upper[2][k] <=
                    Greatest({upper_bounds[i][k] : i \in LeafPositions})
    /\ (SceneLaunched /\ num_leaves >= 1) =>
          /\ \A i \in LeafPositions :
               LET tid == i % SceneLanes
                   visits == lane_visits(tid)
               IN /\ visits[((i - tid) \div SceneLanes) + 1] = i
                  /\ \A a, b \in 1 .. Len(visits) :
                       visits[a] = visits[b] => a = b
                  /\ \A other \in 0 .. SceneLanes - 1 :
                       other # tid =>
                          \A a \in 1 .. Len(lane_visits(other)) :
                             lane_visits(other)[a] # i
          /\ \A tid \in 0 .. SceneLanes - 1 :
               tid >= num_leaves =>
                  /\ lane_visits(tid) = <<>>
                  /\ lane_accumulate(tid, <<vec3(PosInf), vec3(NegInf)>>) =
                        <<vec3(PosInf), vec3(NegInf)>>
    /\ (SceneReduced /\ num_leaves >= 1) =>
          \A k \in 1 .. 3 :
             /\ scene_lower_upper[1][k] =
                  Least({lower_bounds[i][k] : i \in LeafPositions})
             /\ scene_lower_upper[2][k] =
                  Greatest({upper_bounds[i][k] : i \in LeafPositions})

\* The kernel has finished on more leaves than it has lanes; the box with
\* the least corner is the second index of its lane, and the lanes of the
\* last warp read one index each.
C22_Witness ==
    /\ SceneReduced
    /\ num_leaves > SceneLanes
    /\ num_leaves - SceneLanes < SceneLanes - WarpSize
    /\ \E i \in LeafPositions :
         /\ i >= SceneLanes
         /\ lower_bounds[i] = <<0, 0, 0>>
    /\ scene_lower_upper = << <<0, 0, 0>>, <<11, 3, 5>> >>

BitOf(n, k) == (n \div (2 ^ k)) % 2

\* C24: the Morton code of quantized coordinates qx, qy, qz in [0, 1023] is
\* the value in [0, 2^30) whose bit 3k+2 is bit k of qx, whose bit 3k+1 is
\* bit k of qy and whose bit 3k is bit k of qz, for k = 0..9; the sum the
\* code forms equals the bitwise OR of the three dilated and shifted values.
C24_MortonCodeInterleavesBits ==
    pc = "sort" =>
        LET q == lower_bounds[2]
            code == morton_codes[2]
            x00 == interleave_double_zero(q[1])
            y00 == interleave_double_zero(q[2])
            z00 == interleave_double_zero(q[3])
        IN /\ code >= 0 /\ code < 2 ^ 30
           /\ \A k \in 0 .. 9 :
                /\ BitOf(code, 3 * k + 2) = BitOf(q[1], k)
                /\ BitOf(code, 3 * k + 1) = BitOf(q[2], k)
                /\ BitOf(code, 3 * k) = BitOf(q[3], k)
           /\ \A d \in {x00, y00, z00} : \A b \in 0 .. 29 :
                b % 3 # 0 => BitOf(d, b) = 0
           /\ code = Word(ShlBits(Bits(x00), 2) \cup ShlBits(Bits(y00), 1)
                             \cup Bits(z00))
           /\ morton_codes[0] = 0 /\ morton_codes[1] = 2 ^ 30 - 1

\* The Morton kernel has run on the point (341, 682, 1023): alternating
\* bits on x and y, all ten bits set on z.
C24_Witness ==
    /\ pc = "sort"
    /\ lower_bounds[2] = <<341, 682, 1023>>
    /\ morton_codes[2] \notin {0, 2 ^ 30 - 1}
    /\ BitOf(morton_codes[2], 0) = 1 /\ BitOf(morton_codes[2], 2) = 1

\* Every output of a construction from scratch on the current input
\* arrays, kernel after kernel (num_leaves >= 1).
FreshOutputs(nan) ==
    LET fresh == FreshBuild(nan)
        keys == Stored(sorted_keys(FreshCodes(nan)), num_leaves)
        topology == KeyTopology(keys, num_leaves)
    IN [scene_lower_upper |-> FreshScene,
        morton_codes |-> keys,
        leaf_indices |-> fresh.leaf_indices,
        left_nodes |-> topology.left_nodes,
        right_nodes |-> topology.right_nodes,
        parent_nodes |-> topology.parent_nodes,
        escape_indices |-> topology.escape_indices,
        bound_boxes |-> fresh.bound_boxes,
        bvh_nodes |->
            [v \in Nodes |->
                [aabb |-> fresh.bound_boxes[v],
                 left_or_leaf |->
                    IF v < num_leaves - 1 THEN topology.left_nodes[v]
                    ELSE -fresh.leaf_indices[v - (num_leaves - 1)] - 1,
                 escape_index |-> topology.escape_indices[v]]]]

\* C25: when rebuild() returns, on a hierarchy just constructed or built,
\* refitted and mutated before, the scene AABB, keys, leaf_perm, parent,
\* left, right, escape, box and record are those of a construction from
\* scratch on the current inputs; and they are so again when a refit() that
\* follows the rebuild() with the inputs untouched returns.
C25_RebuildEqualsFreshConstruction ==
    /\ []((Returned /\ last_step = "rebuild" /\ num_leaves >= 1) =>
             \A nan \in FreshNans :
                LET fresh == FreshOutputs(nan)
                IN /\ scene_lower_upper = fresh.scene_lower_upper
                   /\ morton_codes = fresh.morton_codes
                   /\ leaf_indices = fresh.leaf_indices
                   /\ left_nodes = fresh.left_nodes
                   /\ right_nodes = fresh.right_nodes
                   /\ parent_nodes = fresh.parent_nodes
                   /\ escape_indices = fresh.escape_indices
                   /\ bound_boxes = fresh.bound_boxes
                   /\ bvh_nodes = fresh.bvh_nodes)
    /\ [][(/\ call = "refit" /\ last_step = "rebuild"
           /\ pc # "idle" /\ pc' = "idle" /\ num_leaves >= 1) =>
              /\ UNCHANGED <<lower_bounds, upper_bounds, nan_quant>>
              /\ \A nan \in FreshNans :
                   LET fresh == FreshOutputs(nan)
                   IN /\ scene_lower_upper' = fresh.scene_lower_upper
                      /\ morton_codes' = fresh.morton_codes
                      /\ leaf_indices' = fresh.leaf_indices
                      /\ left_nodes' = fresh.left_nodes
                      /\ right_nodes' = fresh.right_nodes
                      /\ parent_nodes' = fresh.parent_nodes
                      /\ escape_indices' = fresh.escape_indices
                      /\ bound_boxes' = fresh.bound_boxes
                      /\ bvh_nodes' = fresh.bvh_nodes]_vars

\* rebuild() has returned on a hierarchy of three leaves that was built
\* before and then had a box moved: the scene AABB and the root box have
\* followed the move.
C25_Witness ==
    /\ Returned /\ last_step = "rebuild" /\ mutations = 1 /\ num_leaves = 3
    /\ scene_lower_upper[2][1] = 11
    /\ bound_boxes[0].upper[1] = 11
    /\ bvh_nodes[0].aabb.upper[1] = 11

\* Every thread of the running refit kernel has returned.
RefitKernelComplete ==
    pc = "boxes" /\ \A tid \in LeafPositions : t_pc[tid] = "done"

\* C26: in each run of the refit kernel no box is stored twice and, when
\* the last thread has returned, every box has been stored once; the store
\* to an internal node p is made by a thread whose atomic increment of
\* flags[p] returned 1, and a thread whose increment returned 0 has
\* returned, without a store to any box, and takes no further step.
C26_InternalBoxWrittenOnceBySecondArrival ==
    /\ [](pc = "boxes" => \A v \in Nodes : box_writes[v] <= 1)
    /\ [](RefitKernelComplete => \A v \in Nodes : box_writes[v] = 1)
    /\ [][pc = "boxes" /\ pc' = "boxes" =>
             \A p \in InternalNodes :
                box_writes'[p] # box_writes[p] =>
                   \E tid \in LeafPositions :
                      /\ t_pc[tid] = "merge" /\ t_parent[tid] = p
                      /\ t_pc'[tid] # "merge" /\ t_current'[tid] = p
                      /\ flags[p] = 2]_vars
    /\ [][pc = "boxes" /\ pc' = "boxes" =>
             \A tid \in LeafPositions :
                /\ (t_pc'[tid] = "merge" /\ t_pc[tid] # "merge") =>
                      /\ t_pc[tid] = "loop"
                      /\ flags[t_parent[tid]] = 1
                      /\ flags'[t_parent[tid]] = 2
                      /\ UNCHANGED box_writes
                /\ (t_pc[tid] = "loop" /\ t_pc'[tid] # "loop"
                       /\ flags[t_parent[tid]] = 0) =>
                      /\ t_pc'[tid] = "done"
                      /\ flags'[t_parent[tid]] = 1
                      /\ UNCHANGED box_writes
                /\ t_pc[tid] = "done" =>
                      /\ t_pc'[tid] = "done"
                      /\ t_current'[tid] = t_current[tid]]_vars

\* The refit kernel of a refit() of three leaves has completed: two
\* threads returned as first arrivals below the nodes they stopped at, and
\* the third stored both internal boxes, the root's last.
C26_Witness ==
    /\ RefitKernelComplete /\ call = "refit" /\ num_leaves = 3
    /\ \A p \in InternalNodes : flags[p] = 2 /\ box_writes[p] = 1
    /\ \E tid \in LeafPositions :
         /\ t_current[tid] = 0
         /\ \A other \in LeafPositions \ {tid} :
              t_current[other] = num_leaves - 1 + other

\* The child of parent_index the thread at current_index did not come from:
\* the node whose box the second arrival reads.
sibling(current_index, parent_index) ==
    IF current_index = left_nodes[parent_index]
    THEN right_nodes[parent_index]
    ELSE left_nodes[parent_index]

\* The value this launch of the refit kernel leaves in bound_boxes[v]: the
\* merge of the current input boxes of the leaves below v.
SubtreeBox(v) ==
    FreshBox(leaf_indices,
             Stored([i \in InternalNodes |-> <<left_nodes[i], right_nodes[i]>>],
                    num_leaves - 1),
             v, num_leaves)

\* The children of p whose box of this launch is stored and in memory.
ChildrenInMemory(p) ==
    {c \in {left_nodes[p], right_nodes[p]} :
        box_writes[c] = 1 /\ bound_boxes[c] = SubtreeBox(c)}

\* C27: while the refit kernel runs, a thread stores its box before it
\* increments the parent's flag, so flags[p] never counts more arrivals than
\* children of p whose final box is in memory; a thread that obtained 1 from
\* the increment finds the final box of the sibling's subtree in bound_boxes,
\* and the box a thread carries is the final box of its node, never a merge
\* with a box of an earlier build or refit.
C27_SecondArrivalReadsFinalSiblingBox ==
    pc = "boxes" =>
        /\ \A p \in InternalNodes : flags[p] <= Cardinality(ChildrenInMemory(p))
        /\ \A tid \in LeafPositions :
             /\ t_pc[tid] = "loop" => box_writes[t_current[tid]] = 1
             /\ t_pc[tid] = "merge" =>
                   LET other == sibling(t_current[tid], t_parent[tid])
                   IN /\ box_writes[other] = 1
                      /\ bound_boxes[other] = SubtreeBox(other)
             /\ t_pc[tid] \in {"loop", "merge", "done"} =>
                   t_aabb[tid] = SubtreeBox(t_current[tid])

\* In a refit() after a mutation, a thread has obtained 1 from the increment
\* and is about to read a sibling box that differs from the one the previous
\* run left there (the box still held by the compact record).
C27_Witness ==
    /\ pc = "boxes" /\ call = "refit" /\ mutations >= 1
    /\ \E tid \in LeafPositions :
         /\ t_pc[tid] = "merge"
         /\ LET other == sibling(t_current[tid], t_parent[tid])
            IN /\ bound_boxes[other] # bvh_nodes[other].aabb
               /\ other < num_leaves - 1

\* The next step of refit thread tid, whatever the other threads have done.
ThreadStep(tid) ==
    \/ assign_bounding_boxes_leaf(tid)
    \/ assign_bounding_boxes_arrive(tid)
    \/ assign_bounding_boxes_merge(tid)

\* The executions of the loop body a thread can still begin when it is at
\* position at of the kernel with current_index = node: one for each node on
\* the way from its node to the root.
IterationsFrom(tid, at, node) ==
    CASE at = "start" -> Depth(num_leaves - 1 + tid, num_leaves)
      [] at = "loop" -> Depth(node, num_leaves)
      [] at = "merge" -> Depth(node, num_leaves) - 1
      [] OTHER -> 0

IterationsLeft(tid) == IterationsFrom(tid, t_pc[tid], t_current[tid])

\* The statements before the next atomic increment or the exit, by position.
StatementsFrom(at) ==
    CASE at \in {"start", "merge"} -> 2
      [] at = "loop" -> 1
      [] OTHER -> 0

\* The threads that returned from inside the loop: their increment found 0.
ReturnedAtOnce == {tid \in LeafPositions : t_pc[tid] = "done" /\ t_parent[tid] # -1}

\* The threads that left the loop because parent_index = -1.
LeftAtRoot == {tid \in LeafPositions : t_pc[tid] = "done" /\ t_parent[tid] = -1}

\* C28: a refit thread that has not returned always has its next step to
\* take, whatever the other threads do; every step is one thread's and
\* brings that thread nearer its end; every atomic increment it executes
\* begins one of at most depth(leaf) loop iterations (the iterations left go
\* down by one and never up), and an increment that finds 0 ends the thread
\* in the same step; when the kernel is complete, N-1 threads have returned
\* on a 0, one at each internal node, and exactly one thread has left the
\* loop with parent = -1, at node 0, whose box it stored.
C28_RefitThreadsNeverWait ==
    /\ [](pc = "boxes" =>
            \A tid \in LeafPositions :
               /\ t_pc[tid] # "done" => ENABLED ThreadStep(tid)
               /\ IterationsLeft(tid) >= 0
               /\ IterationsLeft(tid) <= Depth(num_leaves - 1 + tid, num_leaves))
    /\ [][pc = "boxes" /\ pc' = "boxes" =>
             \E tid \in LeafPositions :
                LET before == IterationsLeft(tid)
                    after == IterationsFrom(tid, t_pc'[tid], t_current'[tid])
                IN /\ \A other \in LeafPositions \ {tid} :
                        /\ t_pc'[other] = t_pc[other]
                        /\ t_current'[other] = t_current[other]
                   /\ \/ after < before
                      \/ /\ after = before
                         /\ StatementsFrom(t_pc'[tid]) < StatementsFrom(t_pc[tid])
                   /\ t_pc[tid] = "loop" =>
                        /\ before >= 1
                        /\ t_pc'[tid] = "done" \/ after = before - 1
                        /\ flags[t_parent[tid]] = 0 => t_pc'[tid] = "done"]_vars
    /\ [](RefitKernelComplete =>
            /\ Cardinality(ReturnedAtOnce) = num_leaves - 1
            /\ {t_parent[tid] : tid \in ReturnedAtOnce} = InternalNodes
            /\ Cardinality(LeftAtRoot) = 1
            /\ \A tid \in LeftAtRoot :
                  /\ t_current[tid] = 0
                  /\ box_writes[0] = 1
                  /\ bound_boxes[0] = t_aabb[tid])

\* The refit kernel of a refit() of three leaves is complete: the thread
\* of a leaf at depth 2 left the loop at the root after two iterations, and
\* the other two returned on a 0.
C28_Witness ==
    /\ RefitKernelComplete /\ call = "refit" /\ num_leaves = 3
    /\ Cardinality(ReturnedAtOnce) = 2
    /\ \E tid \in LeftAtRoot : Depth(num_leaves - 1 + tid, num_leaves) = 2

\* The refit kernel has been launched and none of its threads has run.
RefitKernelLaunched == pc = "boxes" /\ \A tid \in LeafPositions : t_pc[tid] = "start"

\* C29: in any sequence of rebuild() and refit() calls, the step that
\* launches the refit kernel, in refit() and in the refit() that ends
\* rebuild(), leaves every flag 0; each run of the kernel starts with
\* flags[p] = 0 and ends with flags[p] = 2 for every internal node p, and
\* the flags stay 2 until the next launch.
C29_FlagsZeroedBeforeEveryLaunch ==
    /\ [][(pc # "boxes" /\ pc' = "boxes") =>
             /\ pc = "refit"
             /\ call \in {"rebuild", "refit"}
             /\ DOMAIN flags' = InternalNodes
             /\ \A p \in InternalNodes : flags'[p] = 0]_vars
    /\ [](RefitKernelLaunched => \A p \in InternalNodes : flags[p] = 0)
    /\ []((RefitKernelComplete \/ (Returned /\ num_leaves >= 1)) =>
             \A p \in InternalNodes : flags[p] = 2)

\* The refit kernel of a refit() that follows another refit() of three
\* leaves is complete: the launch found every flag at 2 from the run
\* before, and every flag is 2 again.
C29_Witness ==
    /\ RefitKernelComplete /\ call = "refit" /\ last_step = "refit"
    /\ num_leaves = 3
    /\ \A p \in InternalNodes : flags[p] = 2

\* The escape array the threads of the kernel leave when they run one after
\* the other, thread 0 first, on an array of zeros.
SerialEscapes ==
    KeyEscapes(Stored([i \in InternalNodes |-> <<left_nodes[i], right_nodes[i]>>],
                      num_leaves - 1),
               num_leaves, num_leaves - 1)

\* The escape kernel of the last build has completed.
EscapeKernelComplete ==
    /\ num_leaves >= 1
    /\ \/ pc \in {"refit", "boxes"}
       \/ Returned

\* C30: in the escape kernel no entry of escape_indices is stored to twice,
\* by two threads or by one; an entry that has been stored to holds the value
\* it has when the threads run one after the other, whatever the order the
\* threads ran in; and when the kernel is complete every node in [0, 2N-1)
\* has been stored to exactly once, the array is that of the serial run, and
\* no entry is the 0 of the allocation.
C30_EscapeEntriesWrittenOnce ==
    LET serial == SerialEscapes
    IN /\ pc = "escape" =>
             /\ \A v \in Nodes :
                  /\ escape_writes[v] <= 1
                  /\ escape_writes[v] = 1 => escape_indices[v] = serial[v]
             /\ \A tid \in pending : \A other \in pending \ {tid} :
                  LET start(t) == IF t < num_internal_nodes THEN left_nodes[t] ELSE 0
                      mine == escape_stores(start(tid))
                      theirs == escape_stores(start(other))
                  IN \A j \in 1 .. Len(mine) : \A k \in 1 .. Len(theirs) :
                        mine[j] # theirs[k]
       /\ EscapeKernelComplete =>
             /\ DOMAIN escape_indices = Nodes
             /\ \A v \in Nodes : escape_writes[v] = 1 /\ escape_indices[v] # 0
             /\ escape_indices = serial

\* The escape kernel of the first build of three leaves is complete: each of
\* the five entries allocated as 0 was stored to once and none is 0; the root
\* and the last node of its right spine hold -1.
C30_Witness ==
    /\ pc = "refit" /\ call = "rebuild" /\ last_step = "none" /\ num_leaves = 3
    /\ \A v \in Nodes : escape_writes[v] = 1 /\ escape_indices[v] # 0
    /\ escape_indices[0] = -1
    /\ \E v \in Nodes \ {0} : escape_indices[v] = -1
    /\ \E v \in Nodes : escape_indices[v] > 0

\* The escape thread that takes the step: the one that leaves pending.
EscapeThreadsStepping == pending \ pending'

\* C31 as stated: a thread with i >= N-1 stores to no entry of escape[], and
\* entry 0 is -1 from the allocation on.
C31_LastThreadWritesNothing ==
    /\ [][pc = "escape" =>
             \A tid \in EscapeThreadsStepping :
                tid >= num_internal_nodes => UNCHANGED <<escape_indices, escape_writes>>]_vars
    /\ []((num_leaves >= 1 /\ call = "rebuild" /\ last_step = "none"
              /\ pc # "idle") =>
             escape_indices[0] = -1)

\* C31: the escape kernel is launched with one thread per i in [0, N); the
\* one thread with i >= N-1 (i = N-1) stores -1 to entry 0 and to every node
\* of the root's right spine and to no other entry, and the threads with
\* i < N-1 store to none of these; the buffer is allocated with 0, and entry
\* 0 is 0 in the first build until thread N-1 has run and -1 from then on.
C31_LastThreadWritesRootAndRightSpine ==
    /\ [][(pc = "escape" /\ num_leaves >= 1) =>
             \A tid \in EscapeThreadsStepping : \A v \in Nodes :
                LET anchor == NearestLeftChild(v, num_leaves)
                    target == IF tid >= num_internal_nodes
                              THEN anchor = -1
                              ELSE anchor = left_nodes[tid]
                IN /\ tid \in LeafPositions
                   /\ escape_writes'[v] =
                         escape_writes[v] + (IF target THEN 1 ELSE 0)
                   /\ (target /\ tid >= num_internal_nodes) =>
                         escape_indices'[v] = -1
                   /\ ~target => escape_indices'[v] = escape_indices[v]]_vars
    /\ []((num_leaves >= 1 /\ call = "rebuild" /\ last_step = "none"
              /\ pc # "idle") =>
             escape_indices[0] =
                IF \/ pc \in {"refit", "boxes"}
                   \/ pc = "escape" /\ num_leaves - 1 \notin pending
                THEN -1 ELSE 0)

\* In the first build of three leaves thread 2 of the escape kernel has run
\* before the threads of the two internal nodes: entry 0, allocated as 0, is
\* -1, and so is a second entry, on the root's right spine.
C31_Witness ==
    /\ pc = "escape" /\ call = "rebuild" /\ last_step = "none" /\ num_leaves = 3
    /\ pending = {0, 1}
    /\ escape_indices[0] = -1 /\ escape_writes[0] = 1
    /\ \E v \in Nodes \ {0} : escape_indices[v] = -1 /\ escape_writes[v] = 1

\* The first lines of determine_range for node i: the prefix lengths towards
\* the two neighbours, the direction and the lower bound.
range_direction(codes, i, n) ==
    LET m0 == codes[i]
        d_l == delta(m0, codes, i, i - 1, n)
        d_r == delta(m0, codes, i, i + 1, n)
    IN [d_l |-> d_l, d_r |-> d_r, d |-> sign(d_r - d_l), d_min |-> Min(d_l, d_r)]

\* C32: for the sorted keys of every build of N >= 2 leaves (duplicates
\* allowed) and every internal node i, delta(i, i+1) differs from
\* delta(i, i-1); the direction is +1 when the right neighbour shares the
\* longer prefix and -1 when the left one does, and the lower bound
\* min(delta(i, i-1), delta(i, i+1)) is delta(i, i-d), below delta(i, i+d).
C32_DirectionIsNeverZero ==
    num_leaves >= 2 =>
        \A i \in InternalNodes :
            LET r == range_direction(morton_codes, i, num_leaves)
                m0 == morton_codes[i]
            IN /\ r.d_l # r.d_r
               /\ r.d_r - r.d_l # 0
               /\ r.d \in {-1, 1}
               /\ r.d = 1 <=> r.d_r > r.d_l
               /\ r.d = -1 <=> r.d_l > r.d_r
               /\ r.d_min = delta(m0, morton_codes, i, i - r.d, num_leaves)
               /\ r.d_min < delta(m0, morton_codes, i, i + r.d, num_leaves)

\* The tree kernel has run thread 1 on four equal keys: the positions break
\* the tie, delta(1, 0) = 63 exceeds delta(1, 2) = 62, the direction is -1
\* and node 1 covers the keys 0 and 1.
C32_Witness ==
    /\ pc = "construct" /\ num_leaves = 4 /\ 1 \notin pending
    /\ \A k \in LeafPositions : morton_codes[k] = morton_codes[0]
    /\ LET r == range_direction(morton_codes, 1, num_leaves)
       IN r.d = -1 /\ r.d_l = 63 /\ r.d_r = 62
    /\ determine_range(morton_codes, 1, num_leaves) = <<0, 1>>

\* The positions s of [first, last-1] whose key shares a longer prefix with
\* the first key than the last key does; first itself is one of them.
SplitCandidates(codes, first, last) ==
    LET d_min == common_prefix(codes[first], codes[last], first, last)
    IN {s \in first .. last - 1 :
          s = first \/ common_prefix(codes[first], codes[s], first, s) > d_min}

\* The split a scan of first + 1, first + 2, ... finds: the position before
\* the first one that is no candidate.
RECURSIVE linear_split(_, _, _, _)
linear_split(codes, first, last, s) ==
    IF s + 1 \in SplitCandidates(codes, first, last)
    THEN linear_split(codes, first, last, s + 1)
    ELSE s

\* C33: for the range [first, last] determine_range returns for any internal
\* node of any sorted key sequence, first < last, and find_split returns the
\* largest s of [first, last-1] with delta(first, s) > delta(first, last),
\* first counting as one; the candidates are first .. s without a gap, so
\* this is the s a linear scan stops at; a range of length 1 gives first.
C33_FindSplitIsLargestCandidate ==
    num_leaves >= 2 =>
        \A i \in InternalNodes :
            LET range == determine_range(morton_codes, i, num_leaves)
                first == range[1]
                last == range[2]
                split == find_split(morton_codes, first, last)
                candidates == SplitCandidates(morton_codes, first, last)
            IN /\ 0 <= first /\ first < last /\ last < num_leaves
               /\ split \in candidates
               /\ \A s \in candidates : s <= split
               /\ candidates = first .. split
               /\ split = linear_split(morton_codes, first, last, first)
               /\ last = first + 1 => split = first

\* The tree kernel has run thread 0 on four keys whose root range [0, 3]
\* splits after position 2, found by the two steps 2 and 1 of the loop, and
\* another node of the tree has a range of length 1.
C33_Witness ==
    /\ pc = "construct" /\ num_leaves = 4 /\ 0 \notin pending
    /\ determine_range(morton_codes, 0, num_leaves) = <<0, 3>>
    /\ find_split(morton_codes, 0, 3) = 2
    /\ left_nodes[0] = 2
    /\ \E i \in InternalNodes :
         LET range == determine_range(morton_codes, i, num_leaves)
         IN range[2] = range[1] + 1

\* The length a scan of i + d, i + 2d, ... finds for node i: the number of
\* positions in direction d, from l + 1 on, before the first one whose key
\* shares no more than d_min bits with key i.
RECURSIVE linear_length(_, _, _, _, _, _)
linear_length(codes, i, n, d, d_min, l) ==
    IF delta(codes[i], codes, i, i + (l + 1) * d, n) > d_min
    THEN linear_length(codes, i, n, d, d_min, l + 1)
    ELSE l

\* C34: for every internal node i of every sorted key sequence, the doubling
\* loop ends with an lmax beyond the scan's length l, the binary search
\* returns that l, l >= 1, every position i + d .. i + l*d shares more than
\* d_min bits with key i and position i + (l+1)*d does not, and the range
\* returned is [min(i, j), max(i, j)] for j = i + l*d.
C34_DetermineRangeIsMaximal ==
    num_leaves >= 2 =>
        \A i \in InternalNodes :
            LET r == range_direction(morton_codes, i, num_leaves)
                m0 == morton_codes[i]
                good(k) == delta(m0, morton_codes, i, i + k * r.d, num_leaves) > r.d_min
                lmax == range_expand(m0, morton_codes, i, num_leaves, r.d, r.d_min, 2)
                l == range_search(m0, morton_codes, i, num_leaves, r.d, r.d_min,
                                  0, lmax \div 2)
                scan == linear_length(morton_codes, i, num_leaves, r.d, r.d_min, 0)
                j == i + l * r.d
            IN /\ l = scan
               /\ l >= 1 /\ l < lmax
               /\ \A k \in 1 .. l : good(k)
               /\ ~good(l + 1)
               /\ ~good(lmax)
               /\ j \in LeafPositions
               /\ determine_range(morton_codes, i, num_leaves) =
                     <<Min(i, j), Max(i, j)>>

\* The tree kernel has run on four keys: the root's range was found with
\* lmax = 4 and l = 3 (steps t = 2 and t = 1 both taken), and another node
\* extends to the left over more than one position.
C34_Witness ==
    /\ pc = "verify" /\ num_leaves = 4
    /\ determine_range(morton_codes, 0, num_leaves) = <<0, 3>>
    /\ range_expand(morton_codes[0], morton_codes, 0, num_leaves, 1, -1, 2) = 4
    /\ \E i \in InternalNodes :
         /\ range_direction(morton_codes, i, num_leaves).d = -1
         /\ determine_range(morton_codes, i, num_leaves)[1] < i - 1

\* The lmax the doubling loop of determine_range ends with when it runs its
\* body at most fuel times, and -1 when it is still running then.
RECURSIVE range_expand_within(_, _, _, _, _, _, _, _)
range_expand_within(m0, codes, i, n, d, d_min, lmax, fuel) ==
    IF delta(m0, codes, i, i + lmax * d, n) > d_min
    THEN IF fuel = 0 THEN -1
         ELSE range_expand_within(m0, codes, i, n, d, d_min, lmax * 2, fuel - 1)
    ELSE lmax

\* The times the binary search of determine_range runs its body from t on
\* (t //= 2 until t < 1), and -1 when it is still running after fuel times.
RECURSIVE range_search_iterations(_, _)
range_search_iterations(t, fuel) ==
    IF t >= 1
    THEN IF fuel = 0 THEN -1
         ELSE LET rest == range_search_iterations(t \div 2, fuel - 1)
              IN IF rest = -1 THEN -1 ELSE rest + 1
    ELSE 0

\* The times the loop of find_split runs its body from step on
\* (step = (step + 1) // 2 until step <= 1), and -1 when it is still running
\* after fuel times.
RECURSIVE split_search_iterations(_, _)
split_search_iterations(step, fuel) ==
    IF step > 1
    THEN IF fuel = 0 THEN -1
         ELSE LET rest == split_search_iterations((step + 1) \div 2, fuel - 1)
              IN IF rest = -1 THEN -1 ELSE rest + 1
    ELSE 0

\* C35: for every sorted key sequence of N >= 2 keys and every internal node
\* i, the doubling loop of determine_range ends within N doublings, with
\* lmax below 2N: delta is -1 at every position outside [0, N) and d_min is
\* at least -1, so the loop ends at the latest when i + lmax*d is outside;
\* the binary search from lmax // 2 and the loop of find_split on the range
\* found end within N iterations each.
C35_RangeAndSplitLoopsTerminate ==
    num_leaves >= 2 =>
        \A i \in InternalNodes :
            LET r == range_direction(morton_codes, i, num_leaves)
                m0 == morton_codes[i]
                lmax == range_expand_within(m0, morton_codes, i, num_leaves,
                                            r.d, r.d_min, 2, num_leaves)
            IN /\ r.d_min >= -1
               /\ \A k \in 1 .. 2 * num_leaves :
                    (i + k * r.d < 0 \/ i + k * r.d >= num_leaves) =>
                       /\ delta(m0, morton_codes, i, i + k * r.d, num_leaves) = -1
                       /\ ~(delta(m0, morton_codes, i, i + k * r.d, num_leaves)
                              > r.d_min)
               /\ lmax # -1
               /\ lmax >= 2 /\ lmax < 2 * num_leaves
               /\ lmax = range_expand(m0, morton_codes, i, num_leaves, r.d, r.d_min, 2)
               /\ i + (lmax \div 2) * r.d \in LeafPositions
               /\ range_search_iterations(lmax \div 2, num_leaves) \in 1 .. num_leaves
               /\ LET range == determine_range(morton_codes, i, num_leaves)
                  IN split_search_iterations(range[2] - range[1], num_leaves)
                        \in 0 .. num_leaves

\* The tree kernel has run on four keys: the doubling loop of the root went
\* from 2 to 4 and stopped at position 4, outside the array, and the loops
\* of the search and of the split ran twice each.
C35_Witness ==
    /\ pc = "verify" /\ num_leaves = 4
    /\ range_expand_within(morton_codes[0], morton_codes, 0, num_leaves, 1, -1, 2,
                           num_leaves) = 4
    /\ range_search_iterations(2, num_leaves) = 2
    /\ determine_range(morton_codes, 0, num_leaves) = <<0, 3>>
    /\ split_search_iterations(3, num_leaves) = 2

\* The positions the doubling loop of determine_range hands to delta.
RECURSIVE expand_probes(_, _, _, _, _, _, _)
expand_probes(m0, codes, i, n, d, d_min, lmax) ==
    {i + lmax * d} \cup
       IF delta(m0, codes, i, i + lmax * d, n) > d_min
       THEN expand_probes(m0, codes, i, n, d, d_min, lmax * 2)
       ELSE {}

\* The positions the binary search of determine_range hands to delta.
RECURSIVE search_probes(_, _, _, _, _, _, _, _)
search_probes(m0, codes, i, n, d, d_min, l, t) ==
    IF t >= 1
    THEN {i + (l + t) * d} \cup
            search_probes(m0, codes, i, n, d, d_min,
                          IF delta(m0, codes, i, i + (l + t) * d, n) > d_min
                          THEN l + t ELSE l,
                          t \div 2)
    ELSE {}

\* The positions determine_range hands to delta for node i, and the
\* positions of the key array it reads: its own, and each of the others that
\* passes the test of delta.
range_accesses(codes, i, n) ==
    LET r == range_direction(codes, i, n)
        lmax == range_expand(codes[i], codes, i, n, r.d, r.d_min, 2)
        probes == {i - 1, i + 1}
                    \cup expand_probes(codes[i], codes, i, n, r.d, r.d_min, 2)
                    \cup search_probes(codes[i], codes, i, n, r.d, r.d_min, 0,
                                       lmax \div 2)
    IN [probes |-> probes,
        reads |-> {i} \cup {j \in probes : 0 <= j /\ j < n}]

\* The values new_split takes in the loop of find_split.
RECURSIVE split_probes(_, _, _, _, _, _, _)
split_probes(codes, first, last, first_code, d_min, split, step) ==
    IF step > 1
    THEN LET step2 == (step + 1) \div 2
             new_split == split + step2
         IN {new_split} \cup
               split_probes(codes, first, last, first_code, d_min,
                   IF /\ new_split < last
                      /\ common_prefix(first_code, codes[new_split],
                                       first, new_split) > d_min
                   THEN new_split ELSE split,
                   step2)
    ELSE {}

\* The positions of the key array find_split reads inside its loop: the
\* values of new_split below last.
split_reads(codes, first, last) ==
    LET d_min == common_prefix(codes[first], codes[last], first, last)
    IN {s \in split_probes(codes, first, last, codes[first], d_min, first,
                           last - first) : s < last}

\* C36: in every build and refit of N >= 1 leaves no thread indexes an
\* array outside its bounds.  A thread of the tree kernel still to run reads
\* the keys only at positions of [0, N) in determine_range and, in the loop
\* of find_split, only strictly between first and last, and the children it
\* stores lie in [1, 2N-1); every child and parent stored is a node or -1;
\* an escape thread stores only to nodes and reads right[] only at internal
\* nodes; a refit thread reads the inputs at a leaf in [0, N), the boxes at
\* nodes and the flags and children at an internal node; the linearizer
\* reads the leaf order inside [0, N).
C36_AccessesInBounds ==
    num_leaves >= 1 =>
        /\ DOMAIN morton_codes = LeafPositions /\ DOMAIN leaf_indices = LeafPositions
        /\ DOMAIN left_nodes = InternalNodes /\ DOMAIN right_nodes = InternalNodes
        /\ DOMAIN flags = InternalNodes
        /\ DOMAIN parent_nodes = Nodes /\ DOMAIN escape_indices = Nodes
        /\ DOMAIN bound_boxes = Nodes /\ DOMAIN bvh_nodes = Nodes
        /\ \A tid \in LeafPositions : leaf_indices[tid] \in LeafPositions
        /\ pc = "construct" =>
              /\ pending \subseteq InternalNodes
              /\ \A i \in pending :
                   LET range == determine_range(morton_codes, i, num_leaves)
                       lr == node_children(morton_codes, i, num_leaves)
                   IN /\ range_accesses(morton_codes, i, num_leaves).reads
                           \subseteq LeafPositions
                      /\ {range[1], range[2]} \subseteq LeafPositions
                      /\ \A s \in split_reads(morton_codes, range[1], range[2]) :
                           range[1] < s /\ s < range[2]
                      /\ lr[1] \in 1 .. 2 * num_leaves - 2
                      /\ lr[2] \in 1 .. 2 * num_leaves - 2
              /\ \A i \in InternalNodes \ pending :
                   /\ left_nodes[i] \in 1 .. 2 * num_leaves - 2
                   /\ right_nodes[i] \in 1 .. 2 * num_leaves - 2
        /\ (pc \in {"verify", "escape", "refit", "boxes"} \/ Returned) =>
              /\ \A i \in InternalNodes :
                   /\ left_nodes[i] \in 1 .. 2 * num_leaves - 2
                   /\ right_nodes[i] \in 1 .. 2 * num_leaves - 2
              /\ \A v \in Nodes : parent_nodes[v] \in -1 .. num_leaves - 2
        /\ pc = "escape" =>
              /\ pending \subseteq LeafPositions
              /\ \A tid \in pending :
                   LET stores == escape_stores(IF tid < num_internal_nodes
                                               THEN left_nodes[tid] ELSE 0)
                   IN \A k \in 1 .. Len(stores) :
                         /\ stores[k] \in Nodes
                         /\ k < Len(stores) => stores[k] \in InternalNodes
        /\ pc = "boxes" =>
              \A tid \in LeafPositions :
                 /\ num_leaves - 1 + tid \in Nodes
                 /\ t_pc[tid] # "start" => t_current[tid] \in Nodes
                 /\ t_pc[tid] \in {"loop", "merge"} =>
                       /\ t_parent[tid] \in InternalNodes
                       /\ left_nodes[t_parent[tid]] \in Nodes
                       /\ right_nodes[t_parent[tid]] \in Nodes
                 /\ t_pc[tid] = "done" => t_parent[tid] \in -1 .. num_leaves - 2
        /\ RefitKernelComplete =>
              \A tid \in Nodes :
                 IF tid < num_leaves - 1 THEN tid \in InternalNodes
                 ELSE tid - (num_leaves - 1) \in LeafPositions

\* The tree kernel of a build of three leaves is about to run a thread
\* whose determine_range hands delta a position outside the key array, which
\* delta does not read, and whose find_split reads a key inside its range.
C36_Witness ==
    /\ pc = "construct" /\ num_leaves = 3
    /\ \E i \in pending :
         LET range == determine_range(morton_codes, i, num_leaves)
             acc == range_accesses(morton_codes, i, num_leaves)
         IN /\ \E j \in acc.probes : j < 0 \/ j >= num_leaves
            /\ acc.reads = LeafPositions
            /\ split_reads(morton_codes, range[1], range[2]) # {}

\* ------------------------------------------------- the warp reductions on ints
\* SpecReduce launches the reduce kernel of the test on one full warp.  The
\* lanes hold 1 but two of them, which hold chosen values, the ends of the
\* 32-bit range among them; or each lane holds its own index, as in the test.
IntMax == 2147483647
\* a + b on 32-bit ints: the low 32 bits of the sum, two's complement.
add_int32(a, b) ==
    IF a > 0 /\ b > 0 /\ a > IntMax - b
    THEN (a - IntMax - 1) + (b - IntMax - 1)
    ELSE IF a < 0 /\ b < 0 /\ a < (-IntMax - 1) - b
    THEN (a + IntMax + 1) + (b + IntMax + 1)
    ELSE a + b

warp_reduce_sum_int(var) ==
    LET step(v, m) ==
            [l \in Lanes |-> add_int32(v[l], shfl_xor_sync(v, m)[l])]
    IN step(step(step(step(step(var, 16), 8), 4), 2), 1)
warp_reduce_min_int(var) ==
    LET step(v, m) ==
            [l \in Lanes |-> Min(v[l], shfl_xor_sync(v, m)[l])]
    IN step(step(step(step(step(var, 16), 8), 4), 2), 1)
warp_reduce_max_int(var) ==
    LET step(v, m) ==
            [l \in Lanes |-> Max(v[l], shfl_xor_sync(v, m)[l])]
    IN step(step(step(step(step(var, 16), 8), 4), 2), 1)

ReduceValues == {-IntMax - 1, -5, 3, IntMax}

InitReduce ==
    /\ num_leaves = 0
    /\ lower_bounds = <<>>
    /\ upper_bounds = <<>>
    /\ device = <<"cuda:0", "cuda:0">>
    /\ nan_quant = -1
    /\ flags = <<>>
    /\ scene_lower_upper = <<vec3(0), vec3(0)>>
    /\ leaf_indices = <<>>
    /\ morton_codes = <<>>
    /\ bound_boxes = <<>>
    /\ parent_nodes = <<>>
    /\ left_nodes = <<>>
    /\ right_nodes = <<>>
    /\ escape_indices = <<>>
    /\ bvh_nodes = <<>>
    /\ pc = "reduce"
    /\ pending = {}
    /\ t_pc = <<>>
    /\ t_current = <<>>
    /\ t_parent = <<>>
    /\ t_aabb = <<>>
    /\ box_writes = <<>>
    /\ escape_writes = <<>>
    /\ verify_errors = 0
    /\ call = "none"
    /\ last_step = "none"
    /\ mutations = 0
    /\ \/ var_int = [tid \in Lanes |-> tid]
       \/ \E a \in Lanes, b \in Lanes, x \in ReduceValues, y \in ReduceValues :
            /\ a < b
            /\ var_int = [tid \in Lanes |-> IF tid = a THEN x
                                            ELSE IF tid = b THEN y ELSE 1]
    /\ ret_min_int = zeros(WarpSize, 0)
    /\ ret_max_int = zeros(WarpSize, 0)
    /\ ret_sum_int = zeros(WarpSize, 0)

\* The int part of the test's kernel, launched with dim = 32: one warp, every
\* lane stores the three results at its own index.
reduce_kernel ==
    /\ pc = "reduce"
    /\ ret_min_int' = Stored(warp_reduce_min_int(var_int), WarpSize)
    /\ ret_max_int' = Stored(warp_reduce_max_int(var_int), WarpSize)
    /\ ret_sum_int' = Stored(warp_reduce_sum_int(var_int), WarpSize)
    /\ pc' = "idle"
    /\ last_step' = "reduce"
    /\ UNCHANGED <<inputs, arrays, pending, threads, verify_errors, call,
                   mutations, var_int>>

NextReduce == reduce_kernel

SpecReduce == InitReduce /\ [][NextReduce]_vars

\* The 32 values added one lane after the other in 32-bit arithmetic.
RECURSIVE LaneSum(_, _)
LaneSum(var, n) ==
    IF n = 0 THEN 0 ELSE add_int32(LaneSum(var, n - 1), var[n - 1])

\* C37: after the reduce kernel has run on a full warp, every one of the 32
\* lanes holds the minimum of the 32 input values, the maximum of the 32
\* input values, and their sum (in the 32-bit arithmetic of int); before the
\* launch the result arrays hold zeros.
C37_EveryLaneHoldsTheReduction ==
    /\ pc = "reduce" => \A l \in Lanes :
           ret_min_int[l] = 0 /\ ret_max_int[l] = 0 /\ ret_sum_int[l] = 0
    /\ last_step = "reduce" =>
         LET values == {var_int[k] : k \in Lanes}
             total == LaneSum(var_int, WarpSize)
         IN /\ DOMAIN ret_min_int = Lanes
            /\ DOMAIN ret_max_int = Lanes
            /\ DOMAIN ret_sum_int = Lanes
            /\ \A l \in Lanes :
                 /\ ret_min_int[l] = Least(values)
                 /\ ret_max_int[l] = Greatest(values)
                 /\ ret_sum_int[l] = total

\* The test's case: the lanes hold 0 .. 31 and every lane gets 0, 31 and 496.
C37_Witness ==
    /\ last_step = "reduce"
    /\ var_int = [tid \in Lanes |-> tid]
    /\ \A l \in Lanes :
         ret_min_int[l] = 0 /\ ret_max_int[l] = 31 /\ ret_sum_int[l] = 496

\* ------------------------------------------------------ the algebra of boxes
\* The boxes the laws of aabb_merge are checked on: the boxes a caller may
\* hand over, the zero box of a fresh buffer and the empty box.
AabbPool ==
    {make_aabb(b[1], b[2]) : b \in Boxes} \cup {ZeroAabb, make_empty_aabb}
\* The points aabb_expand_point is fed: the corners of those boxes and the two
\* points of the test.
PointPool ==
    {b[1] : b \in Boxes} \cup {b[2] : b \in Boxes}
        \cup {<<1, 2, 3>>, <<-1, 0, 4>>}
\* aabb_expand_point applied to the first n points of pts in turn, starting
\* from the empty box.
RECURSIVE ExpandPoints(_, _)
ExpandPoints(pts, n) ==
    IF n = 0 THEN make_empty_aabb
    ELSE aabb_expand_point(ExpandPoints(pts, n - 1), pts[n])

\* C38: on the boxes a caller may hand over, the zero box and the empty box,
\* aabb_merge is commutative, associative and idempotent and the empty box
\* (+inf, -inf) is its identity; expanding the empty box by a sequence of
\* points, in whatever order and with whatever repetitions, gives the
\* component-wise minimum and maximum of the points.  In the refit kernel the
\* box a second arrival stores at its parent is the same whether it arrived
\* from the left or from the right child: the merge of the two children's
\* boxes in either order, which is the merge of the leaf boxes below.
C38_MergeIsOrderFree ==
    /\ (pc = "rebuild" /\ last_step = "none") =>
         /\ \A a \in AabbPool, b \in AabbPool :
              /\ aabb_merge(a, b) = aabb_merge(b, a)
              /\ \A c \in AabbPool :
                   aabb_merge(aabb_merge(a, b), c)
                       = aabb_merge(a, aabb_merge(b, c))
         /\ \A a \in AabbPool :
              /\ aabb_merge(a, a) = a
              /\ aabb_merge(a, make_empty_aabb) = a
              /\ aabb_merge(make_empty_aabb, a) = a
         /\ ExpandPoints(<<>>, 0) = make_aabb(vec3(PosInf), vec3(NegInf))
         /\ \A n \in 1 .. MaxLeaves : \A pts \in [1 .. n -> PointPool] :
              LET axis(k) == {pts[j][k] : j \in 1 .. n}
              IN ExpandPoints(pts, n)
                   = make_aabb(
                       <<Least(axis(1)), Least(axis(2)), Least(axis(3))>>,
                       <<Greatest(axis(1)), Greatest(axis(2)),
                         Greatest(axis(3))>>)
    /\ pc = "boxes" =>
         \A tid \in LeafPositions :
            t_pc[tid] = "merge" =>
              LET p == t_parent[tid]
                  own == t_aabb[tid]
                  other == bound_boxes[sibling(t_current[tid], p)]
                  left == bound_boxes[left_nodes[p]]
                  right == bound_boxes[right_nodes[p]]
                  stored == merged_box(own, t_current[tid], p)
              IN /\ stored = aabb_merge(own, other)
                 /\ stored = aabb_merge(other, own)
                 /\ stored = aabb_merge(left, right)
                 /\ stored = aabb_merge(right, left)
                 /\ stored = SubtreeBox(p)

\* A second arrival that came from the right child, so that the merge takes
\* the children in the order right, left; the two boxes differ and neither
\* holds the other.
C38_Witness ==
    /\ pc = "boxes"
    /\ \E tid \in LeafPositions :
         /\ t_pc[tid] = "merge"
         /\ t_current[tid] = right_nodes[t_parent[tid]]
         /\ LET other == bound_boxes[left_nodes[t_parent[tid]]]
                stored == merged_box(t_aabb[tid], t_current[tid], t_parent[tid])
            IN stored # t_aabb[tid] /\ stored # other

====
